---- MODULE Spec2Model ----
(***************************************************************************)
(* team-send: message validation (src/src/schemas/messageSchema.ts),       *)
(* recipient projection (lib/utils getInitialSelectedMembers) and the      *)
(* relational store declared in src/prisma/schema.prisma.                  *)
(*                                                                         *)
(* Time is counted in minutes since 1970-01-01T00:00Z and the JavaScript   *)
(* Date setters are evaluated in UTC (no daylight-saving shifts).          *)
(* Optional (nullish) values are sequences of length 0 or 1.               *)
(***************************************************************************)
EXTENDS Integers, Sequences, FiniteSets, TLC

\* a validation run: the clock, the payload in form and in native
\* representation, and the two SafeParse results
VARIABLES now, form, input, formResult, inputResult

\* a recipient projection: the member rows handed over and the selection
VARIABLES groupMembers, rowSelection

\* the store: User, Contact, Group, Member, Message and MemberSnapshot rows
\* and the outcome of the last procedure call
VARIABLES users, contacts, groups, members, messages, memberSnapshots, lastError

validationVars == <<now, form, input, formResult, inputResult>>

projectionVars == <<groupMembers, rowSelection>>

\* the connection rows of the users (EmailConfig, SmsConfig, GroupMeConfig),
\* the channel toggles of their groups and the unique fields of their profiles
VARIABLES emailConfigs, smsConfigs, groupMeConfigs, groupChannels, profiles

\* the last procedure call: the calls it awaited, in order, and what a query
\* returned
VARIABLES lastOps, lastResult

storeVars == <<users, contacts, groups, members, messages, memberSnapshots, lastError>>

accountVars == <<emailConfigs, smsConfigs, groupMeConfigs, groupChannels, profiles>>

callVars == <<lastOps, lastResult>>

\* the procedure calls in flight: for each call its procedure, the statement
\* it awaits next, what it has read and what it has done so far
VARIABLES calls

sessionVars == <<calls>>

\* the recents picker (GroupMembersRecents): its React state, the two
\* queries it watches and the members field of the form it fills
VARIABLES usersAdded, previousUsersResults, groupsAdded, previousGroupsResults,
          recentUsers, recentGroups, formMembers

pickerVars == <<usersAdded, previousUsersResults, groupsAdded, previousGroupsResults,
                recentUsers, recentGroups, formMembers>>

vars == <<validationVars, projectionVars, storeVars, accountVars, callVars,
          sessionVars, pickerVars>>

----------------------------------------------------------------------------
(* Optional values *)

None == <<>>

Some(x) == <<x>>

IsSome(o) == Len(o) = 1

Get(o) == o[1]

----------------------------------------------------------------------------
(* JavaScript Date arithmetic (ECMAScript MakeDay / MakeDate), UTC *)

MinutesPerDay == 1440

\* day number since the epoch of the civil date (y, m, d), m in 1..12;
\* d may lie outside the month and then rolls over, as MakeDay does
DaysFromCivil(y, m, d) ==
  LET yy  == IF m <= 2 THEN y - 1 ELSE y
      era == yy \div 400
      yoe == yy - era * 400
      mp  == IF m > 2 THEN m - 3 ELSE m + 9
      doy == (153 * mp + 2) \div 5 + d - 1
      doe == yoe * 365 + yoe \div 4 - yoe \div 100 + doy
  IN  era * 146097 + doe - 719468

\* civil date [y, m, d] of a day number
CivilFromDays(z) ==
  LET zz  == z + 719468
      era == zz \div 146097
      doe == zz - era * 146097
      yoe == (doe - doe \div 1460 + doe \div 36524 - doe \div 146096) \div 365
      doy == doe - (365 * yoe + yoe \div 4 - yoe \div 100)
      mp  == (5 * doy + 2) \div 153
      d   == doy - (153 * mp + 2) \div 5 + 1
      m   == IF mp < 10 THEN mp + 3 ELSE mp - 9
      y   == yoe + era * 400 + (IF m <= 2 THEN 1 ELSE 0)
  IN  [y |-> y, m |-> m, d |-> d]

\* MakeDay(year, month0, date) with month0 any integer (0 = January)
MakeDay(y, month0, d) ==
  DaysFromCivil(y + (month0 \div 12), (month0 % 12) + 1, d)

\* Date.UTC-like constructor used to write down the sample instants
Instant(y, m, d, hh, mm) == DaysFromCivil(y, m, d) * MinutesPerDay + hh * 60 + mm

\* date.setFullYear(date.getFullYear() + n)
setFullYear(t, n) ==
  LET c == CivilFromDays(t \div MinutesPerDay)
  IN  MakeDay(c.y + n, c.m - 1, c.d) * MinutesPerDay + (t % MinutesPerDay)

\* date.setMonth(date.getMonth() - n)
setMonth(t, n) ==
  LET c == CivilFromDays(t \div MinutesPerDay)
  IN  MakeDay(c.y, c.m - 1 - n, c.d) * MinutesPerDay + (t % MinutesPerDay)

\* date.setDate(date.getDate() - n)
setDate(t, n) == t - n * MinutesPerDay

\* date.setHours(date.getHours() - n)
setHours(t, n) == t - n * 60

\* date.setMinutes(date.getMinutes() - n)
setMinutes(t, n) == t - n

\* a Date object: a time value, or NaN (Invalid Date) when valid is FALSE
DateOf(t) == [valid |-> TRUE, t |-> t]

InvalidDate == [valid |-> FALSE, t |-> 0]

\* a <= b and a > b on Date objects: every comparison with NaN is false
DateLe(a, b) == a.valid /\ b.valid /\ a.t <= b.t

DateGt(a, b) == a.valid /\ b.valid /\ a.t > b.t

\* a form date string: absent (null / undefined), "", unparseable, or the
\* ISO text of the instant t
NoDateString == [kind |-> "absent", t |-> 0]

EmptyDateString == [kind |-> "empty", t |-> 0]

BadDateString == [kind |-> "invalid", t |-> 0]

DateString(t) == [kind |-> "iso", t |-> t]

\* new Date(string)
ParseDate(s) == IF s.kind = "iso" THEN DateOf(s.t) ELSE InvalidDate

\* truthiness of a nullish string
StringTruthy(s) == s.kind \in {"invalid", "iso"}

----------------------------------------------------------------------------
(* messageSchema.ts: tables and issue records *)

recurPeriod == {"years", "months", "weeks", "days"}

ReminderPeriod == {"months", "weeks", "days", "hours", "minutes"}

\* period -> ceiling of recurringNum (@/lib/validations)
recurMaxValues ==
  [p \in recurPeriod |->
     CASE p = "years"  -> 5
       [] p = "months" -> 12
       [] p = "weeks"  -> 52
       [] p = "days"   -> 31]

\* z.number().max(31) of recurringNum
RecurringNumMax == 31

\* z.array(reminderSchema).max(3)
RemindersMax == 3

\* fiveMinFromNow.setMinutes(getMinutes() + 5)
ReminderMarginMinutes == 5

NoText == [text |-> "", period |-> "", max |-> 0]

Text(t) == [text |-> t, period |-> "", max |-> 0]

\* `For ${recurringPeriod}, the maximum allowed number is ${recurMaxValues[recurringPeriod!]}...`
CapText(p) ==
  [text |-> "For <period>, the maximum allowed number is <max>",
   period |-> p, max |-> recurMaxValues[p]]

\* a ZodIssue: the rule that raised it, its path and its message
Issue(rule, path, message) == [rule |-> rule, path |-> path, message |-> message]

InPath(path, field) == \E i \in 1..Len(path) : path[i] = field

\* a SafeParse result: success exactly when there is no issue
Result(issues) == [success |-> issues = {}, issues |-> issues]

NotRun == [success |-> FALSE, issues |-> {Issue("notRun", <<>>, NoText)}]

\* truthiness of `recurringNum && recurringPeriod`
NumTruthy(o) == IsSome(o) /\ Get(o) # 0

----------------------------------------------------------------------------
(* baseMessageFormSchema: the per-field checks of the cross-field data.    *)
(* The payload is well typed, so no field aborts the object parse and the  *)
(* refinements below all run on it.                                        *)

\* variant: the field itself has no upper limit
recurringNumIssues_NoMax(p) ==
  IF ~IsSome(p.recurringNum) THEN {}
  ELSE IF Get(p.recurringNum) <= 0
         THEN {Issue("too_small", <<"recurringNum">>, Text("Number must be greater than 0"))}
         ELSE {}

recurringNumIssues(p) ==
  IF ~IsSome(p.recurringNum) THEN {}
  ELSE (IF Get(p.recurringNum) <= 0
          THEN {Issue("too_small", <<"recurringNum">>, Text("Number must be greater than 0"))}
          ELSE {})
       \cup
       (IF Get(p.recurringNum) > RecurringNumMax
          THEN {Issue("too_big", <<"recurringNum">>, Text("Number must be less than or equal to 31"))}
          ELSE {})

remindersIssues(p) ==
  IF IsSome(p.reminders) /\ Len(Get(p.reminders)) > RemindersMax
    THEN {Issue("too_big", <<"reminders">>, Text("Array must contain at most 3 element(s)"))}
    ELSE {}

baseMessageFormSchema(p) == recurringNumIssues(p) \cup remindersIssues(p)

----------------------------------------------------------------------------
(* messageFormSchema: the three refinements of the edit form *)

\* variant: compares with the field maximum instead of the period's ceiling
formRecurCapOk_FixedMax(p) ==
  IF p.isRecurring = "yes" /\ NumTruthy(p.recurringNum) /\ IsSome(p.recurringPeriod)
    THEN ~(Get(p.recurringNum) > RecurringNumMax)
    ELSE TRUE

formRecurCapOk(p) ==
  IF p.isRecurring = "yes" /\ NumTruthy(p.recurringNum) /\ IsSome(p.recurringPeriod)
    THEN ~(Get(p.recurringNum) > recurMaxValues[Get(p.recurringPeriod)])
    ELSE TRUE

formRecurCapIssue(p) ==
  Issue("recurrenceCap", <<"recurringNum", "recurringPeriod", "isRecurring">>,
        CapText(Get(p.recurringPeriod)))

ScheduleText == Text("Scheduled date must be in the future and no more than one year from today.")

ScheduleIssue == Issue("scheduleWindow", <<"scheduledDate", "isScheduled">>, ScheduleText)

\* variant: date < now instead of date <= now
formScheduleOk_Strict(p, n) ==
  IF p.isScheduled = "yes" /\ StringTruthy(p.scheduledDate)
    THEN LET date           == ParseDate(p.scheduledDate)
             oneYearFromNow == DateOf(setFullYear(n, 1))
         IN  IF date.valid /\ date.t < n THEN FALSE
             ELSE IF DateGt(date, oneYearFromNow) THEN FALSE
             ELSE TRUE
    ELSE TRUE

formScheduleOk(p, n) ==
  IF p.isScheduled = "yes" /\ StringTruthy(p.scheduledDate)
    THEN LET date           == ParseDate(p.scheduledDate)
             oneYearFromNow == DateOf(setFullYear(n, 1))
         IN  IF DateLe(date, DateOf(n)) THEN FALSE
             ELSE IF DateGt(date, oneYearFromNow) THEN FALSE
             ELSE TRUE
    ELSE TRUE

\* the switch on reminder.period: the reminder's trigger date
reminderDate(date, reminder) ==
  IF ~date.valid THEN date
  ELSE DateOf(CASE reminder.period = "minutes" -> setMinutes(date.t, reminder.num)
                [] reminder.period = "hours"   -> setHours(date.t, reminder.num)
                [] reminder.period = "days"    -> setDate(date.t, reminder.num)
                [] reminder.period = "weeks"   -> setDate(date.t, reminder.num * 7)
                [] reminder.period = "months"  -> setMonth(date.t, reminder.num)
                [] OTHER -> date.t)

reminderOk(date, reminder, n) ==
  LET fiveMinFromNow == DateOf(n + ReminderMarginMinutes)
  IN  DateGt(reminderDate(date, reminder), fiveMinFromNow)

formRemindersOk(p, n) ==
  IF StringTruthy(p.scheduledDate) /\ IsSome(p.reminders)
    THEN \A i \in 1..Len(Get(p.reminders)) :
           reminderOk(ParseDate(p.scheduledDate), Get(p.reminders)[i], n)
    ELSE TRUE

\* .refine(check) without a second argument: path [] and zod's default message
formRemindersIssue == Issue("reminderLeadTime", <<>>, Text("Invalid input"))

messageFormSchema(p, n) ==
  Result(baseMessageFormSchema(p)
         \cup (IF formRecurCapOk(p) THEN {} ELSE {formRecurCapIssue(p)})
         \cup (IF formScheduleOk(p, n) THEN {} ELSE {ScheduleIssue})
         \cup (IF formRemindersOk(p, n) THEN {} ELSE {formRemindersIssue}))

----------------------------------------------------------------------------
(* messageInputSchema: native booleans and Date *)

\* z.date() rejects an Invalid Date and aborts the object parse
inputDateIssues(p) ==
  IF IsSome(p.scheduledDate) /\ ~Get(p.scheduledDate).valid
    THEN {Issue("invalid_date", <<"scheduledDate">>, Text("Invalid date"))}
    ELSE {}

inputScheduledRequiredOk(p) == ~(p.isScheduled /\ ~IsSome(p.scheduledDate))

inputScheduledRequiredIssue ==
  Issue("scheduledRequired", <<"scheduledDate">>,
        Text("Scheduled date is required when message is scheduled"))

inputRecurringRequiredOk(p) ==
  ~(p.isRecurring /\ (~NumTruthy(p.recurringNum) \/ ~IsSome(p.recurringPeriod)))

inputRecurringRequiredIssue ==
  Issue("recurringRequired", <<"recurringNum", "recurringPeriod">>,
        Text("Recurring number and period are required when message is recurring"))

\* variant: an empty reminders list satisfies the requirement
inputRemindersRequiredOk_AllowsEmpty(p) == ~(p.isReminders /\ ~IsSome(p.reminders))

inputRemindersRequiredOk(p) ==
  ~(p.isReminders /\ ~(IsSome(p.reminders) /\ Len(Get(p.reminders)) # 0))

inputRemindersRequiredIssue ==
  Issue("remindersRequired", <<"reminders">>,
        Text("Reminders are required when reminders are enabled"))

\* variant: the cap is applied whether or not the message is recurring
inputRecurCapOk_NoFlag(p) ==
  IF NumTruthy(p.recurringNum) /\ IsSome(p.recurringPeriod)
    THEN ~(Get(p.recurringNum) > recurMaxValues[Get(p.recurringPeriod)])
    ELSE TRUE

inputRecurCapOk(p) ==
  IF p.isRecurring /\ NumTruthy(p.recurringNum) /\ IsSome(p.recurringPeriod)
    THEN ~(Get(p.recurringNum) > recurMaxValues[Get(p.recurringPeriod)])
    ELSE TRUE

inputRecurCapIssue(p) ==
  Issue("recurrenceCap", <<"recurringNum", "recurringPeriod", "isRecurring">>,
        CapText(Get(p.recurringPeriod)))

\* variant: the one-year limit itself is outside the window
inputScheduleOk_OpenUpper(p, n) ==
  IF p.isScheduled /\ IsSome(p.scheduledDate)
    THEN LET date           == Get(p.scheduledDate)
             oneYearFromNow == DateOf(setFullYear(n, 1))
         IN  IF DateLe(date, DateOf(n)) THEN FALSE
             ELSE IF date.valid /\ date.t >= oneYearFromNow.t THEN FALSE
             ELSE TRUE
    ELSE TRUE

\* variant: the one-year upper limit is not checked
inputScheduleOk_NoUpper(p, n) ==
  IF p.isScheduled /\ IsSome(p.scheduledDate)
    THEN ~DateLe(Get(p.scheduledDate), DateOf(n))
    ELSE TRUE

inputScheduleOk(p, n) ==
  IF p.isScheduled /\ IsSome(p.scheduledDate)
    THEN LET date           == Get(p.scheduledDate)
             oneYearFromNow == DateOf(setFullYear(n, 1))
         IN  IF DateLe(date, DateOf(n)) THEN FALSE
             ELSE IF DateGt(date, oneYearFromNow) THEN FALSE
             ELSE TRUE
    ELSE TRUE

\* variant: the schedule window is checked whether or not isScheduled is set
messageInputSchema_AlwaysWindow(p, n) ==
  IF inputDateIssues(p) # {}
    THEN Result(baseMessageFormSchema(p) \cup inputDateIssues(p))
    ELSE Result(baseMessageFormSchema(p)
           \cup (IF inputScheduledRequiredOk(p) THEN {} ELSE {inputScheduledRequiredIssue})
           \cup (IF inputRecurringRequiredOk(p) THEN {} ELSE {inputRecurringRequiredIssue})
           \cup (IF inputRemindersRequiredOk(p) THEN {} ELSE {inputRemindersRequiredIssue})
           \cup (IF inputRecurCapOk(p) THEN {} ELSE {inputRecurCapIssue(p)})
           \cup (IF inputScheduleOk([p EXCEPT !.isScheduled = TRUE], n)
                   THEN {} ELSE {ScheduleIssue}))

messageInputSchema(p, n) ==
  IF inputDateIssues(p) # {}
    THEN Result(baseMessageFormSchema(p) \cup inputDateIssues(p))
    ELSE Result(baseMessageFormSchema(p)
           \cup (IF inputScheduledRequiredOk(p) THEN {} ELSE {inputScheduledRequiredIssue})
           \cup (IF inputRecurringRequiredOk(p) THEN {} ELSE {inputRecurringRequiredIssue})
           \cup (IF inputRemindersRequiredOk(p) THEN {} ELSE {inputRemindersRequiredIssue})
           \cup (IF inputRecurCapOk(p) THEN {} ELSE {inputRecurCapIssue(p)})
           \cup (IF inputScheduleOk(p, n) THEN {} ELSE {ScheduleIssue}))

\* a form payload has a native representation unless its date string is
\* unparseable (there is no Date to send)
hasInput(p) == p.scheduledDate.kind # "invalid"

\* the same payload in native representation: yes/no -> boolean,
\* date string -> Date (absent when the string is nullish or empty)
toInput(p) ==
  [isScheduled     |-> p.isScheduled = "yes",
   scheduledDate   |-> IF StringTruthy(p.scheduledDate)
                         THEN Some(ParseDate(p.scheduledDate)) ELSE None,
   isRecurring     |-> p.isRecurring = "yes",
   recurringNum    |-> p.recurringNum,
   recurringPeriod |-> p.recurringPeriod,
   isReminders     |-> p.isReminders = "yes",
   reminders       |-> p.reminders]

----------------------------------------------------------------------------
(* The payloads validated *)

\* longest reminders list drawn
MaxReminders == 2

\* the clock reading of a validation: two minutes to midnight on a leap day
NowSamples == {Instant(2024, 2, 29, 23, 58)}

ScheduledDateSamples(n) ==
  {NoDateString, EmptyDateString, BadDateString}
  \cup {DateString(t) : t \in
         {n, n + 1,
          n + MinutesPerDay, n + MinutesPerDay + 6,
          Instant(2024, 3, 31, 0, 0), Instant(2024, 6, 15, 12, 0),
          Instant(2025, 1, 31, 0, 0),
          setFullYear(n, 1), setFullYear(n, 1) + 1}}

RecurringNumSamples == {None} \cup {Some(k) : k \in {0, 5, 6, 32, 53}}

RecurringPeriodSamples == {None} \cup {Some(q) : q \in recurPeriod}

ReminderSamples == [num : {1}, period : ReminderPeriod]

SeqsUpTo(S, k) == UNION {[1..m -> S] : m \in 0..k}

RemindersSamples == {None} \cup {Some(r) : r \in SeqsUpTo(ReminderSamples, MaxReminders)}

YesNo == {"no", "yes"}

FormPayloads(n) ==
  [isScheduled     : YesNo,
   scheduledDate   : ScheduledDateSamples(n),
   isRecurring     : YesNo,
   recurringNum    : RecurringNumSamples,
   recurringPeriod : RecurringPeriodSamples,
   isReminders     : YesNo,
   reminders       : RemindersSamples]

----------------------------------------------------------------------------
(* Validation runs *)

\* an error message: its text and the value interpolated into it ("" if none)
ErrorText(text, arg) == [text |-> text, arg |-> arg]

\* no error: the call returned
NoError == [name |-> "", code |-> "", message |-> ErrorText("", "")]

\* new TRPCError({ code, message })
TRPCError(code, message) == [name |-> "TRPCError", code |-> code, message |-> message]

\* an error thrown by the Prisma client, with its error code
PrismaClientKnownRequestError(code) ==
  [name |-> "PrismaClientKnownRequestError", code |-> code, message |-> ErrorText("", "")]

\* handleError: a TRPCError is passed on as it is, anything else is wrapped
\* as an unexpected error that keeps the code of its cause
handleError(error) ==
  IF error.name = "TRPCError" THEN error
  ELSE TRPCError("INTERNAL_SERVER_ERROR",
                 ErrorText("An unexpected error occurred", error.code))

\* what useRateLimit throws when the user is over the limit
TooManyRequests == TRPCError("TOO_MANY_REQUESTS", ErrorText("Too many requests", ""))

\* no projection under way
ProjectionIdle ==
  /\ groupMembers = None
  /\ rowSelection = None

\* an empty store
StoreIdle ==
  /\ users = {}
  /\ contacts = {}
  /\ groups = {}
  /\ members = {}
  /\ messages = {}
  /\ memberSnapshots = {}
  /\ lastError = NoError

\* no connection, group toggle or username stored
AccountIdle ==
  /\ emailConfigs = {}
  /\ smsConfigs = {}
  /\ groupMeConfigs = {}
  /\ groupChannels = {}
  /\ profiles = {}

\* no procedure called
CallIdle ==
  /\ lastOps = <<>>
  /\ lastResult = None

\* no call in flight
SessionIdle == calls = <<>>

\* a query nobody has subscribed to
NotMounted == [isLoading |-> FALSE, isSuccess |-> FALSE, data |-> <<>>]

\* the picker is not mounted
PickerIdle ==
  /\ usersAdded = <<>>
  /\ previousUsersResults = <<>>
  /\ groupsAdded = <<>>
  /\ previousGroupsResults = <<>>
  /\ recentUsers = NotMounted
  /\ recentGroups = NotMounted
  /\ formMembers = <<>>

\* no validation under way
ValidationIdle ==
  /\ now = 0
  /\ form = None
  /\ input = None
  /\ formResult = NotRun
  /\ inputResult = NotRun

Init ==
  /\ now \in NowSamples
  /\ form \in FormPayloads(now)
  /\ input = IF hasInput(form) THEN Some(toInput(form)) ELSE None
  /\ formResult = NotRun
  /\ inputResult = NotRun
  /\ ProjectionIdle
  /\ StoreIdle
  /\ AccountIdle
  /\ CallIdle
  /\ SessionIdle
  /\ PickerIdle

\* messageFormSchema.safeParse(form), as the form resolver calls it
ValidateForm ==
  /\ formResult = NotRun
  /\ formResult' = messageFormSchema(form, now)
  /\ UNCHANGED <<now, form, input, inputResult, projectionVars, storeVars, accountVars, callVars,
               sessionVars, pickerVars>>

\* messageInputSchema.safeParse(input), as the procedure's .input() calls it
ValidateInput ==
  /\ IsSome(input)
  /\ inputResult = NotRun
  /\ inputResult' = messageInputSchema(Get(input), now)
  /\ UNCHANGED <<now, form, input, formResult, projectionVars, storeVars, accountVars, callVars,
               sessionVars, pickerVars>>

Next == ValidateForm \/ ValidateInput

Spec == Init /\ [][Next]_vars

----------------------------------------------------------------------------
(* Properties of the validation schemas *)

Ran(r) == r # NotRun

Cites(r, field) == \E i \in r.issues : InPath(i.path, field)

FormRan == Ran(formResult)

InputRan == Ran(inputResult)

BothRan == FormRan /\ InputRan

\* the payload is recurring and its recurringNum exceeds its period's ceiling
ExceedsCap ==
  /\ form.isRecurring = "yes"
  /\ IsSome(form.recurringNum) /\ IsSome(form.recurringPeriod)
  /\ Get(form.recurringNum) > recurMaxValues[Get(form.recurringPeriod)]

CapReported(r) ==
  /\ ~r.success
  /\ \E i \in r.issues :
       /\ InPath(i.path, "recurringNum")
       /\ i.message.period = Get(form.recurringPeriod)
       /\ i.message.max = recurMaxValues[Get(form.recurringPeriod)]

\* C1: a recurring payload whose recurringNum exceeds recurMaxValues[period]
\* is rejected by messageFormSchema and by messageInputSchema, with an issue
\* whose path includes recurringNum and whose message names the period and
\* its maximum.
C1_CapRejects ==
  ExceedsCap => /\ (FormRan => CapReported(formResult))
                /\ (InputRan => CapReported(inputResult))

\* C1 witness: 6 years (within the field maximum 31), validated by both schemas
C1_Witness ==
  /\ BothRan /\ ExceedsCap
  /\ Get(form.recurringNum) <= RecurringNumMax
  /\ CapReported(formResult) /\ CapReported(inputResult)

ScheduleRejected(r) == ~r.success /\ Cites(r, "scheduledDate")

DateAtOrBeforeNow == form.scheduledDate.kind = "iso" /\ form.scheduledDate.t <= now

\* C2 as stated: every payload whose scheduledDate <= now is rejected with
\* an issue citing scheduledDate, by both schemas.
C2_Original ==
  DateAtOrBeforeNow => /\ (FormRan => ScheduleRejected(formResult))
                       /\ (InputRan => ScheduleRejected(inputResult))

\* C2 amended: every payload with isScheduled on whose scheduledDate <= now
\* is rejected with an issue citing scheduledDate, by both schemas.
C2_ScheduledPastRejects ==
  (form.isScheduled = "yes" /\ DateAtOrBeforeNow)
    => /\ (FormRan => ScheduleRejected(formResult))
       /\ (InputRan => ScheduleRejected(inputResult))

\* C2 witness: scheduled exactly at the current instant
C2_Witness ==
  /\ BothRan /\ form.isScheduled = "yes"
  /\ form.scheduledDate.kind = "iso" /\ form.scheduledDate.t = now
  /\ ScheduleRejected(formResult) /\ ScheduleRejected(inputResult)

\* now + 1 year as the schemas compute it: setFullYear(getFullYear() + 1)
DateBeyondOneYear ==
  form.scheduledDate.kind = "iso" /\ form.scheduledDate.t > setFullYear(now, 1)

\* C3 as stated: every payload whose scheduledDate > now + 1 year is
\* rejected with an issue citing scheduledDate, by both schemas.
C3_Original ==
  DateBeyondOneYear => /\ (FormRan => ScheduleRejected(formResult))
                       /\ (InputRan => ScheduleRejected(inputResult))

\* C3 amended: every payload with isScheduled on whose scheduledDate is
\* later than now + 1 year is rejected with an issue citing scheduledDate,
\* by both schemas.
C3_ScheduledFarRejects ==
  (form.isScheduled = "yes" /\ DateBeyondOneYear)
    => /\ (FormRan => ScheduleRejected(formResult))
       /\ (InputRan => ScheduleRejected(inputResult))

\* C3 witness: scheduled one minute past the one-year limit
C3_Witness ==
  /\ BothRan /\ form.isScheduled = "yes"
  /\ form.scheduledDate.kind = "iso"
  /\ form.scheduledDate.t = setFullYear(now, 1) + 1
  /\ ScheduleRejected(formResult) /\ ScheduleRejected(inputResult)

\* some reminder's trigger time is at or before now + 5 minutes
LateReminder ==
  /\ form.scheduledDate.kind = "iso" /\ IsSome(form.reminders)
  /\ \E i \in 1..Len(Get(form.reminders)) :
       reminderDate(ParseDate(form.scheduledDate), Get(form.reminders)[i]).t
         <= now + ReminderMarginMinutes

\* C4: a payload with a reminder whose trigger time is at or before
\* now + 5 minutes is rejected by the edit-form schema and the issue cites
\* the reminders field.
C4_LateReminderCited ==
  (LateReminder /\ FormRan) => (~formResult.success /\ Cites(formResult, "reminders"))

\* C5: messageInputSchema rejects isRecurring without recurringNum or
\* recurringPeriod, isScheduled without scheduledDate and isReminders
\* without a non-empty reminders list, each with an issue on the companion
\* field's path.
C5_CompanionRequired ==
  InputRan =>
    LET p == Get(input) IN
    /\ (p.isRecurring /\ ~IsSome(p.recurringNum))
         => (~inputResult.success /\ Cites(inputResult, "recurringNum"))
    /\ (p.isRecurring /\ ~IsSome(p.recurringPeriod))
         => (~inputResult.success /\ Cites(inputResult, "recurringPeriod"))
    /\ (p.isScheduled /\ ~IsSome(p.scheduledDate))
         => (~inputResult.success /\ Cites(inputResult, "scheduledDate"))
    /\ (p.isReminders /\ (~IsSome(p.reminders) \/ Get(p.reminders) = <<>>))
         => (~inputResult.success /\ Cites(inputResult, "reminders"))

\* C5 witness: reminders enabled with an empty list, nothing else wrong
C5_Witness ==
  /\ InputRan
  /\ Get(input).isReminders /\ Get(input).reminders = Some(<<>>)
  /\ ~Get(input).isRecurring /\ ~Get(input).isScheduled
  /\ ~inputResult.success
  /\ \A i \in inputResult.issues : i.path = <<"reminders">>

\* C6: in edit-form mode a payload with isRecurring = yes that carries a
\* recurringNum and no recurringPeriod fails validation (the
\* required-companion rule rejects it whatever the cap rule decides).
C6_FormCompanionRequired ==
  (/\ FormRan
   /\ form.isRecurring = "yes"
   /\ IsSome(form.recurringNum) /\ ~IsSome(form.recurringPeriod))
    => ~formResult.success

\* C7: for every payload that has a native representation, the edit-form
\* schema accepts it exactly when the storage schema accepts it, at the
\* same current time.
C7_SchemasAgree == BothRan => (formResult.success <=> inputResult.success)

CapIssue(r) == \E i \in r.issues : i.rule = "recurrenceCap"

\* C8: with isRecurring off the recurrence-cap rule raises no issue,
\* whatever recurringNum and recurringPeriod hold, in both schemas.
C8_CapOnlyWhenRecurring ==
  form.isRecurring = "no" => (~CapIssue(formResult) /\ ~CapIssue(inputResult))

\* C8 witness: 53 weeks with isRecurring off, validated by both schemas
C8_Witness ==
  /\ BothRan /\ form.isRecurring = "no"
  /\ form.recurringNum = Some(53) /\ form.recurringPeriod = Some("weeks")
  /\ ~CapIssue(formResult) /\ ~CapIssue(inputResult)

----------------------------------------------------------------------------
(* Recipient projection: getInitialSelectedMembers (lib/utils) *)

\* longest member array projected
MaxGroupMembers == 3

\* truthiness of a nullish string column: null and "" are falsy
Truthy(o) == IsSome(o) /\ Get(o) # ""

\* member.contact?.phone / member.contact?.email: undefined without a contact
ContactField(member, field) ==
  IF IsSome(member.contact) THEN Get(member.contact)[field] ELSE None

\* Object.fromEntries keeps, of the entries with one key, the last
LastWithId(arr, k) ==
  arr[CHOOSE i \in 1..Len(arr) :
        /\ arr[i].id = k
        /\ \A j \in (i + 1)..Len(arr) : arr[j].id # k]

\* variant: the isRecipient flag is not consulted
getInitialSelectedMembers_IgnoresFlag(gm) ==
  IF ~IsSome(gm) THEN <<>>
  ELSE [k \in {Get(gm)[i].id : i \in 1..Len(Get(gm))} |->
          LET member == LastWithId(Get(gm), k)
          IN  Truthy(ContactField(member, "phone"))
                \/ Truthy(ContactField(member, "email"))]

\* Object.fromEntries(groupMembers?.map(member => [member.id, isSelected]) ?? []):
\* a map from member id to isSelected
getInitialSelectedMembers(gm) ==
  IF ~IsSome(gm) THEN <<>>
  ELSE [k \in {Get(gm)[i].id : i \in 1..Len(Get(gm))} |->
          LET member == LastWithId(Get(gm), k)
          IN  member.isRecipient
                /\ (Truthy(ContactField(member, "phone"))
                      \/ Truthy(ContactField(member, "email")))]

MemberIdOf(i) == CASE i = 1 -> "A" [] i = 2 -> "B" [] i = 3 -> "C" [] OTHER -> "D"

PhoneOf(i) == CASE i = 1 -> "555-0101" [] i = 2 -> "555-0102" [] i = 3 -> "555-0103" [] OTHER -> "555-0104"

EmailOf(i) == CASE i = 1 -> "a@example.com" [] i = 2 -> "b@example.com" [] i = 3 -> "c@example.com" [] OTHER -> "d@example.com"

\* a nullable string column holds null, "" or a value
ColumnKinds == {"null", "empty", "value"}

Column(kind, value) ==
  CASE kind = "null"  -> None
    [] kind = "empty" -> Some("")
    [] OTHER          -> Some(value)

\* the shape of a member row: its flag and, when the contact is joined,
\* what its phone and email columns hold
MemberShapes ==
  [isRecipient : BOOLEAN,
   contact : {None} \cup {Some(c) : c \in [phone : ColumnKinds, email : ColumnKinds]}]

\* the i-th member row of an array, with the i-th contact's phone and email
MemberAt(i, shape) ==
  [id |-> MemberIdOf(i),
   isRecipient |-> shape.isRecipient,
   contact |-> IF IsSome(shape.contact)
                 THEN Some([phone |-> Column(Get(shape.contact).phone, PhoneOf(i)),
                            email |-> Column(Get(shape.contact).email, EmailOf(i))])
                 ELSE None]

\* groupMembers is undefined, or an array of up to MaxGroupMembers member
\* rows with distinct ids
ProjectInit ==
  /\ \/ groupMembers = None
     \/ \E k \in 0..MaxGroupMembers : \E f \in [1..k -> MemberShapes] :
          groupMembers = Some([i \in 1..k |-> MemberAt(i, f[i])])
  /\ rowSelection = None
  /\ ValidationIdle
  /\ StoreIdle
  /\ AccountIdle
  /\ CallIdle
  /\ SessionIdle
  /\ PickerIdle

\* the message form computes its initial row selection
Project ==
  /\ rowSelection = None
  /\ rowSelection' = Some(getInitialSelectedMembers(groupMembers))
  /\ UNCHANGED <<groupMembers, validationVars, storeVars, accountVars, callVars,
               sessionVars, pickerVars>>

ProjectNext == Project

ProjectSpec == ProjectInit /\ [][ProjectNext]_vars

\* the ids the projection selected
Selected == {k \in DOMAIN Get(rowSelection) : Get(rowSelection)[k]}

\* the contact of the member has a phone or an email
HasChannel(member) ==
  /\ IsSome(member.contact)
  /\ \/ (IsSome(Get(member.contact).phone) /\ Get(Get(member.contact).phone) # "")
     \/ (IsSome(Get(member.contact).email) /\ Get(Get(member.contact).email) # "")

\* C9: the projection selects a member exactly when it is flagged
\* isRecipient and its contact has a phone or an email.
C9_SelectsRecipientsWithChannel ==
  (IsSome(rowSelection) /\ IsSome(groupMembers)) =>
    \A i \in 1..Len(Get(groupMembers)) :
      LET member == Get(groupMembers)[i]
      IN  (member.id \in Selected) <=> (member.isRecipient /\ HasChannel(member))

\* C9 witness: [A(recipient, phone), B(not recipient, phone),
\* C(recipient, no contact info)] projects to {A}
C9_Witness ==
  /\ IsSome(rowSelection)
  /\ groupMembers = Some(<<
       [id |-> "A", isRecipient |-> TRUE,
        contact |-> Some([phone |-> Some("555-0101"), email |-> None])],
       [id |-> "B", isRecipient |-> FALSE,
        contact |-> Some([phone |-> Some("555-0102"), email |-> None])],
       [id |-> "C", isRecipient |-> TRUE,
        contact |-> Some([phone |-> None, email |-> None])] >>)
  /\ Selected = {"A"}

----------------------------------------------------------------------------
(* The store: rows of prisma/schema.prisma and the procedures on them *)

\* most Message rows created
MaxMessages == 1

UserIds == {"u1", "u2"}

MessageIds == 1..MaxMessages

\* u1 owns group g1 with members m1 (contact c1, phone) and m2 (contact c2,
\* email); u2 owns contact c3 and no group
StoreRows ==
  /\ users = UserIds
  /\ contacts = {[id |-> "c1", createdById |-> "u1", phone |-> Some("555-0101"), email |-> None],
                 [id |-> "c2", createdById |-> "u1", phone |-> None, email |-> Some("b@example.com")],
                 [id |-> "c3", createdById |-> "u2", phone |-> None, email |-> None]}
  /\ groups = {[id |-> "g1", createdById |-> "u1"]}
  /\ members = {[id |-> "m1", groupId |-> "g1", contactId |-> "c1", createdById |-> "u1",
                 isRecipient |-> TRUE, memberNotes |-> None],
                [id |-> "m2", groupId |-> "g1", contactId |-> "c2", createdById |-> "u1",
                 isRecipient |-> TRUE, memberNotes |-> None]}
  /\ messages = {}
  /\ memberSnapshots = {}
  /\ lastError = NoError

StoreInit ==
  /\ StoreRows
  /\ AccountIdle
  /\ CallIdle
  /\ SessionIdle
  /\ PickerIdle
  /\ ValidationIdle
  /\ ProjectionIdle

\* onDelete: Cascade from Member to its MemberSnapshot rows
SnapshotsWithoutMembers(gone) == {sn \in memberSnapshots : sn.memberId \notin gone}

\* onDelete: Cascade from Contact to its Member rows (and on to snapshots)
MembersOfContacts(cs) == {m \in members : m.contactId \in cs}

\* a required relation without onDelete restricts the deletion of the User:
\* Group.createdBy, Member.createdBy and Message.createdBy
UserIsReferenced(u) ==
  \/ \E g \in groups : g.createdById = u
  \/ \E m \in members : m.createdById = u
  \/ \E msg \in messages : msg.createdById = u

\* variant: only Contact.phone is @unique
UniqueViolation_PhoneOnly(id, phone, email) ==
  \E c \in contacts :
    /\ c.id # id
    /\ IsSome(phone) /\ c.phone = phone

\* Contact.phone and Contact.email are @unique: no other row holds the same
\* non-null value
UniqueViolation(id, phone, email) ==
  \E c \in contacts :
    /\ c.id # id
    /\ \/ (IsSome(phone) /\ c.phone = phone)
       \/ (IsSome(email) /\ c.email = email)

\* the call ends: the calls it awaited, its error if it threw and the value
\* a query returned
Returns(ops, error, result) ==
  /\ lastOps' = ops
  /\ lastError' = error
  /\ lastResult' = result

\* catch (error) { throw handleError(error) } with no row written
Unchanged(ops, error) ==
  /\ Returns(ops, handleError(error), None)
  /\ UNCHANGED <<users, contacts, groups, members, messages, memberSnapshots>>
  /\ UNCHANGED accountVars

\* contactRouter.update: useRateLimit, then contact.update where
\* { id, createdById: userId }
update(userId, id, phone, email) ==
  /\ userId \in users
  /\ \/ Unchanged(<<"useRateLimit">>, TooManyRequests)
     \/ /\ ~\E c \in contacts : c.id = id /\ c.createdById = userId
        /\ Unchanged(<<"useRateLimit", "contact.update">>,
                     PrismaClientKnownRequestError("P2025"))
     \/ /\ \E c \in contacts : c.id = id /\ c.createdById = userId
        /\ UniqueViolation(id, phone, email)
        /\ Unchanged(<<"useRateLimit", "contact.update">>,
                     PrismaClientKnownRequestError("P2002"))
     \/ /\ \E c \in contacts : c.id = id /\ c.createdById = userId
        /\ ~UniqueViolation(id, phone, email)
        /\ contacts' = {IF c.id = id THEN [c EXCEPT !.phone = phone, !.email = email] ELSE c
                          : c \in contacts}
        /\ Returns(<<"useRateLimit", "contact.update">>, NoError, None)
        /\ UNCHANGED <<users, groups, members, messages, memberSnapshots>>
        /\ UNCHANGED accountVars
  /\ UNCHANGED <<validationVars, projectionVars, sessionVars, pickerVars>>

\* throwContactNotFoundError
ContactNotFound(contactId) ==
  TRPCError("NOT_FOUND", ErrorText("Contact with id <contactId> not found", contactId))

\* { ...contact, members }: the contact's columns and its memberships
ContactWithMembers(contact) ==
  [id |-> contact.id, createdById |-> contact.createdById,
   phone |-> contact.phone, email |-> contact.email,
   members |-> {m.id : m \in {mm \in members : mm.contactId = contact.id}}]

\* variant: findUnique where { id } alone, without createdById
getContactById_AnyOwner(userId, contactId) ==
  /\ userId \in users
  /\ \/ Unchanged(<<"useRateLimit">>, TooManyRequests)
     \/ /\ ~\E c \in contacts : c.id = contactId
        /\ Unchanged(<<"useRateLimit", "contact.findUnique">>, ContactNotFound(contactId))
     \/ /\ \E c \in contacts :
             /\ c.id = contactId
             /\ Returns(<<"useRateLimit", "contact.findUnique", "member.findMany">>,
                        NoError, Some(ContactWithMembers(c)))
        /\ UNCHANGED <<users, contacts, groups, members, messages, memberSnapshots>>
        /\ UNCHANGED accountVars
  /\ UNCHANGED <<validationVars, projectionVars, sessionVars, pickerVars>>

\* contactRouter.getContactById: useRateLimit, contact.findUnique where
\* { id, createdById: userId }, then member.findMany
getContactById(userId, contactId) ==
  /\ userId \in users
  /\ \/ Unchanged(<<"useRateLimit">>, TooManyRequests)
     \/ /\ ~\E c \in contacts : c.id = contactId /\ c.createdById = userId
        /\ Unchanged(<<"useRateLimit", "contact.findUnique">>, ContactNotFound(contactId))
     \/ /\ \E c \in contacts :
             /\ c.id = contactId /\ c.createdById = userId
             /\ Returns(<<"useRateLimit", "contact.findUnique", "member.findMany">>,
                        NoError, Some(ContactWithMembers(c)))
        /\ UNCHANGED <<users, contacts, groups, members, messages, memberSnapshots>>
        /\ UNCHANGED accountVars
  /\ UNCHANGED <<validationVars, projectionVars, sessionVars, pickerVars>>

\* userRouter.deleteAccount: useRateLimit, then user.delete where { id }
deleteAccount(userId) ==
  /\ userId \in users
  /\ \/ Unchanged(<<"useRateLimit">>, TooManyRequests)
     \/ /\ UserIsReferenced(userId)
        /\ Unchanged(<<"useRateLimit", "user.delete">>,
                     PrismaClientKnownRequestError("P2003"))
     \/ /\ ~UserIsReferenced(userId)
        /\ LET cs   == {c.id : c \in {c \in contacts : c.createdById = userId}}
               gone == {m.id : m \in MembersOfContacts(cs)}
           IN  /\ users' = users \ {userId}
               /\ contacts' = {c \in contacts : c.id \notin cs}
               /\ members' = {m \in members : m.id \notin gone}
               /\ memberSnapshots' = SnapshotsWithoutMembers(gone)
        /\ emailConfigs' = {e \in emailConfigs : e.userId # userId}
        /\ smsConfigs' = {e \in smsConfigs : e.userId # userId}
        /\ groupMeConfigs' = {e \in groupMeConfigs : e.userId # userId}
        /\ profiles' = {e \in profiles : e.userId # userId}
        /\ Returns(<<"useRateLimit", "user.delete">>, NoError, None)
        /\ UNCHANGED <<groups, messages, groupChannels>>
  /\ UNCHANGED <<validationVars, projectionVars, sessionVars, pickerVars>>

\* an edit of a Member row's recipient flag and notes
updateMember(id, isRecipient, memberNotes) ==
  /\ \E m \in members : m.id = id
  /\ members' = {IF m.id = id
                   THEN [m EXCEPT !.isRecipient = isRecipient, !.memberNotes = memberNotes]
                   ELSE m : m \in members}
  /\ Returns(<<>>, NoError, None)
  /\ UNCHANGED accountVars
  /\ UNCHANGED <<users, contacts, groups, messages, memberSnapshots>>
  /\ UNCHANGED <<validationVars, projectionVars, sessionVars, pickerVars>>

\* the deletion of a Member row
deleteMember(id) ==
  /\ \E m \in members : m.id = id
  /\ members' = {m \in members : m.id # id}
  /\ memberSnapshots' = SnapshotsWithoutMembers({id})
  /\ Returns(<<>>, NoError, None)
  /\ UNCHANGED accountVars
  /\ UNCHANGED <<users, contacts, groups, messages>>
  /\ UNCHANGED <<validationVars, projectionVars, sessionVars, pickerVars>>

\* the deletion of a Contact row
deleteContact(id) ==
  /\ \E c \in contacts : c.id = id
  /\ LET gone == {m.id : m \in MembersOfContacts({id})}
     IN  /\ contacts' = {c \in contacts : c.id # id}
         /\ members' = {m \in members : m.id \notin gone}
         /\ memberSnapshots' = SnapshotsWithoutMembers(gone)
  /\ Returns(<<>>, NoError, None)
  /\ UNCHANGED accountVars
  /\ UNCHANGED <<users, groups, messages>>
  /\ UNCHANGED <<validationVars, projectionVars, sessionVars, pickerVars>>

RECURSIVE SetToSeq(_)
SetToSeq(S) ==
  IF S = {} THEN <<>>
  ELSE LET x == CHOOSE y \in S : TRUE IN <<x>> \o SetToSeq(S \ {x})

\* the Member rows of a group, each with its Contact's phone and email
MembersWithContact(groupId) ==
  SetToSeq({[id |-> m.id, isRecipient |-> m.isRecipient,
             contact |-> LET c == CHOOSE c \in contacts : c.id = m.contactId
                         IN  Some([phone |-> c.phone, email |-> c.email])]
              : m \in {mm \in members : mm.groupId = groupId}})

\* the snapshot projector: a MemberSnapshot row for each member of the
\* group that the projection selects, copying its flag and notes
snapshotsFor(messageId, groupId) ==
  LET selection == getInitialSelectedMembers(Some(MembersWithContact(groupId)))
  IN  {[messageId |-> messageId, memberId |-> m.id,
        isRecipient |-> m.isRecipient, memberNotes |-> m.memberNotes]
         : m \in {mm \in members : mm.groupId = groupId /\ selection[mm.id]}}

\* a message is sent or scheduled: the Message row and its recipient
\* snapshots are written together
createMessage(userId, id, groupId) ==
  /\ userId \in users
  /\ Cardinality(messages) < MaxMessages
  /\ id = Cardinality(messages) + 1
  /\ \E g \in groups : g.id = groupId /\ g.createdById = userId
  /\ messages' = messages \cup {[id |-> id, groupId |-> groupId,
                                 createdById |-> userId, status |-> "pending"]}
  /\ memberSnapshots' = memberSnapshots \cup snapshotsFor(id, groupId)
  /\ Returns(<<>>, NoError, None)
  /\ UNCHANGED accountVars
  /\ UNCHANGED <<users, contacts, groups, members>>
  /\ UNCHANGED <<validationVars, projectionVars, sessionVars, pickerVars>>

\* messageStatus (messageSchema.ts) / enum MessageStatus (schema.prisma)
messageStatus == {"draft", "pending", "sent", "failed"}

\* status: z.enum(messageStatus): the one check a payload's status gets
statusIssues(status) ==
  IF status \in messageStatus THEN {}
  ELSE {Issue("invalid_enum_value", <<"status">>, Text("Invalid enum value"))}

\* MessageDetails: the Edit link is rendered unless data.status is "sent"
canEdit(msg) == msg.status # "sent"

\* the edit page of a message submits a payload: when the payload is
\* accepted, its fields, status included, are written to the Message row
editMessage(userId, id, status) ==
  /\ userId \in users
  /\ \E msg \in messages : msg.id = id /\ msg.createdById = userId /\ canEdit(msg)
  /\ \/ /\ statusIssues(status) # {}
        /\ Unchanged(<<>>, TRPCError("BAD_REQUEST", ErrorText("Invalid enum value", "status")))
     \/ /\ statusIssues(status) = {}
        /\ messages' = {IF msg.id = id THEN [msg EXCEPT !.status = status] ELSE msg
                          : msg \in messages}
        /\ Returns(<<>>, NoError, None)
        /\ UNCHANGED <<users, contacts, groups, members, memberSnapshots>>
        /\ UNCHANGED accountVars
  /\ UNCHANGED <<validationVars, projectionVars, sessionVars, pickerVars>>

\* the external dispatcher attempts a pending message and writes back
\* sent or failed
dispatch(id, outcome) ==
  /\ outcome \in {"sent", "failed"}
  /\ \E msg \in messages : msg.id = id /\ msg.status = "pending"
  /\ messages' = {IF msg.id = id THEN [msg EXCEPT !.status = outcome] ELSE msg
                    : msg \in messages}
  /\ Returns(<<>>, NoError, None)
  /\ UNCHANGED accountVars
  /\ UNCHANGED <<users, contacts, groups, members, memberSnapshots>>
  /\ UNCHANGED <<validationVars, projectionVars, sessionVars, pickerVars>>

\* the status of a submitted payload: a member of the enum or not
StatusSamples == messageStatus \cup {"archived"}

ContactIds == {"c1", "c2", "c3"}

MemberIds == {"m1", "m2"}

\* the phone and email of an update: both cleared, or the phone set
ContactInputSamples ==
  {[phone |-> None, email |-> None],
   [phone |-> Some("555-0101"), email |-> None]}

\* the flag and notes of a member edit
MemberInputSamples ==
  {[isRecipient |-> TRUE, memberNotes |-> None],
   [isRecipient |-> FALSE, memberNotes |-> None],
   [isRecipient |-> FALSE, memberNotes |-> Some("vip")]}

StoreNext ==
  \/ \E u \in UserIds, id \in ContactIds, in \in ContactInputSamples :
       update(u, id, in.phone, in.email)
  \/ \E u \in UserIds : deleteAccount(u)
  \/ \E id \in MemberIds, in \in MemberInputSamples :
       updateMember(id, in.isRecipient, in.memberNotes)
  \/ \E id \in MemberIds : deleteMember(id)
  \/ \E id \in ContactIds : deleteContact(id)
  \/ \E u \in UserIds, id \in MessageIds : createMessage(u, id, "g1")
  \/ \E id \in MessageIds, outcome \in {"sent", "failed"} : dispatch(id, outcome)
  \/ \E u \in UserIds, id \in MessageIds, st \in StatusSamples : editMessage(u, id, st)

StoreSpec == StoreInit /\ [][StoreNext]_vars

\* C10: once a MemberSnapshot row exists, no later operation on members,
\* contacts or users removes or changes it.
C10_SnapshotsFrozen == [][memberSnapshots \subseteq memberSnapshots']_vars

\* a status change that goes forward along draft -> pending -> sent, enters
\* failed from pending, or retries a failed message
Forward(from, to) ==
  \/ from = to
  \/ from = "draft" /\ to \in {"pending", "sent"}
  \/ from = "pending" /\ to \in {"sent", "failed"}
  \/ from = "failed" /\ to \in {"pending", "sent"}

----------------------------------------------------------------------------
(* The contact router: getContactById and update called by any user *)

\* the ids a caller passes: the three contacts and an id that names none
ContactIdSamples == ContactIds \cup {"c9"}

\* the phone and email of an update
ContactUpdateSamples ==
  [phone : {None, Some("555-0101"), Some("555-0202")},
   email : {None, Some("b@example.com")}]

ContactNext ==
  \/ \E u \in UserIds, id \in ContactIdSamples : getContactById(u, id)
  \/ \E u \in UserIds, id \in ContactIdSamples, in \in ContactUpdateSamples :
       update(u, id, in.phone, in.email)

ContactSpec == StoreInit /\ [][ContactNext]_vars

\* the call went past the rate limit
PastRateLimit == lastOps' # <<"useRateLimit">>

\* no contact with this id was created by this user
NotOwn(userId, id) == ~\E c \in contacts : c.id = id /\ c.createdById = userId

\* C14: getContactById with an id that names no contact, or a contact of
\* another user, ends in NOT_FOUND and returns nothing: neither the
\* contact's fields and memberships nor an empty result.
C14_GetContactNotFound ==
  [][\A u \in UserIds : \A id \in ContactIdSamples :
       (getContactById(u, id) /\ PastRateLimit /\ NotOwn(u, id))
         => (lastError'.code = "NOT_FOUND" /\ lastResult' = None)]_vars

\* C14 witness: u1 asked for c3, which u2 created
C14_Witness ==
  /\ lastOps = <<"useRateLimit", "contact.findUnique">>
  /\ lastError = ContactNotFound("c3")
  /\ lastResult = None
  /\ \E c \in contacts : c.id = "c3" /\ c.createdById = "u2"

\* C15: contact.update with an id that names no contact, or a contact of
\* another user, is surfaced as a not-found error and changes no Contact
\* row.
C15_UpdateNotFound ==
  [][\A u \in UserIds : \A id \in ContactIdSamples : \A in \in ContactUpdateSamples :
       (update(u, id, in.phone, in.email) /\ PastRateLimit /\ NotOwn(u, id))
         => (lastError'.code = "NOT_FOUND" /\ contacts' = contacts)]_vars

\* two Contact rows hold the same non-null phone or the same non-null email
Duplicate ==
  \E a \in contacts : \E b \in contacts :
    /\ a.id # b.id
    /\ \/ (IsSome(a.phone) /\ a.phone = b.phone)
       \/ (IsSome(a.email) /\ a.email = b.email)

\* the update would make the row share a phone or an email with another row
WouldDuplicate(id, in) ==
  \E c \in contacts :
    /\ c.id # id
    /\ \/ (IsSome(in.phone) /\ c.phone = in.phone)
       \/ (IsSome(in.email) /\ c.email = in.email)

\* C19: no two Contact rows ever share a non-null phone or a non-null
\* email, and an update that would create such a pair fails and changes
\* no row.
C19_ContactsUnique ==
  /\ [](~Duplicate)
  /\ [][\A u \in UserIds : \A id \in ContactIdSamples : \A in \in ContactUpdateSamples :
          (update(u, id, in.phone, in.email) /\ PastRateLimit /\ WouldDuplicate(id, in))
            => (lastError' # NoError /\ contacts' = contacts)]_vars

\* C19 witness: u1 tried to give c1 the email of c2 and was refused
C19_Witness ==
  /\ lastOps = <<"useRateLimit", "contact.update">>
  /\ lastError.code = "INTERNAL_SERVER_ERROR" /\ lastError.message.arg = "P2002"
  /\ \E a \in contacts : a.id = "c1" /\ a.createdById = "u1" /\ a.email # Some("b@example.com")
  /\ \E b \in contacts : b.id = "c2" /\ b.email = Some("b@example.com")

----------------------------------------------------------------------------
(* The user router: profile, account and connections *)

\* @id @default(cuid()): an id no row of the table holds
cuid(table) ==
  CHOOSE i \in 1..(Cardinality(table) + 1) : \A e \in table : e.id # i

\* the rows of StoreRows, u1 with an EmailConfig (written by the OAuth
\* callback), no SmsConfig or GroupMeConfig yet, every channel of g1
\* switched on and the username of u2
ConnectionRows ==
  /\ emailConfigs = {[id |-> 1, userId |-> "u1", email |-> "a@example.com",
                       accessToken |-> "ya29"]}
  /\ smsConfigs = {}
  /\ groupMeConfigs = {}
  /\ groupChannels = {[groupId |-> "g1", useSMS |-> TRUE, useEmail |-> TRUE,
                       useGroupMe |-> TRUE]}
  /\ profiles = {[userId |-> "u1", username |-> Some("alice"), email |-> None],
                  [userId |-> "u2", username |-> Some("bob"),
                   email |-> Some("bob@example.com")]}

AccountInit ==
  /\ StoreRows
  /\ ConnectionRows
  /\ CallIdle
  /\ SessionIdle
  /\ PickerIdle
  /\ ValidationIdle
  /\ ProjectionIdle

\* the store rows a user-router procedure does not touch
StoreRowsUnchanged ==
  UNCHANGED <<users, contacts, groups, members, messages, memberSnapshots>>

\* User.username and User.email are @unique (User.phone likewise): the
\* update would give the user a value another user holds
usernameTaken(userId, in) ==
  \E e \in profiles : e.userId # userId /\ e.username = Some(in.username)

emailTaken(userId, in) ==
  \E e \in profiles : e.userId # userId /\ IsSome(in.email) /\ e.email = in.email

UsernameTaken(in) ==
  TRPCError("BAD_REQUEST", ErrorText("Username <username> is already taken", in.username))

\* userRouter.updateProfile: useRateLimit, then user.update with the input
\* (a field left undefined is not written); every P2002 is reported as a
\* taken username
updateProfile(userId, in) ==
  /\ userId \in users
  /\ \/ Unchanged(<<"useRateLimit">>, TooManyRequests)
     \/ /\ usernameTaken(userId, in) \/ emailTaken(userId, in)
        /\ Unchanged(<<"useRateLimit", "user.update">>, UsernameTaken(in))
     \/ /\ ~(usernameTaken(userId, in) \/ emailTaken(userId, in))
        /\ profiles' = {IF e.userId = userId
                          THEN [e EXCEPT !.username = Some(in.username),
                                         !.email = IF IsSome(in.email) THEN in.email ELSE @]
                          ELSE e : e \in profiles}
        /\ Returns(<<"useRateLimit", "user.update">>, NoError, None)
        /\ StoreRowsUnchanged
        /\ UNCHANGED <<emailConfigs, smsConfigs, groupMeConfigs, groupChannels>>
  /\ UNCHANGED <<validationVars, projectionVars, sessionVars, pickerVars>>

EmailAlreadyConnected == TRPCError("BAD_REQUEST", ErrorText("Email is already connected", ""))

\* userRouter.connectEmail: useRateLimit, user.findUnique, then the OAuth
\* authorization URL; no row is written here
connectEmail(userId) ==
  /\ userId \in users
  /\ \/ Unchanged(<<"useRateLimit">>, TooManyRequests)
     \/ /\ \E e \in emailConfigs : e.userId = userId
        /\ Unchanged(<<"useRateLimit", "user.findUnique">>, EmailAlreadyConnected)
     \/ /\ ~\E e \in emailConfigs : e.userId = userId
        /\ Returns(<<"useRateLimit", "user.findUnique">>, NoError,
                   Some([authorizationUrl |-> "accounts.google.com"]))
        /\ StoreRowsUnchanged
        /\ UNCHANGED accountVars
  /\ UNCHANGED <<validationVars, projectionVars, sessionVars, pickerVars>>

\* group.updateMany where { createdById: userId }: a channel toggle of the
\* user's groups is switched off
ChannelOff(userId, channel) ==
  {IF \E g \in groups : g.id = ch.groupId /\ g.createdById = userId
     THEN [ch EXCEPT ![channel] = FALSE] ELSE ch : ch \in groupChannels}

\* userRouter.disconnectEmail: useRateLimit, then in one transaction
\* group.updateMany and emailConfig.delete; the delete of a missing row
\* throws P2025 and the transaction is rolled back
disconnectEmail(userId) ==
  /\ userId \in users
  /\ \/ Unchanged(<<"useRateLimit">>, TooManyRequests)
     \/ /\ ~\E e \in emailConfigs : e.userId = userId
        /\ Unchanged(<<"useRateLimit", "$transaction", "group.updateMany", "emailConfig.delete">>,
                     PrismaClientKnownRequestError("P2025"))
     \/ /\ \E e \in emailConfigs : e.userId = userId
        /\ groupChannels' = ChannelOff(userId, "useEmail")
        /\ emailConfigs' = {e \in emailConfigs : e.userId # userId}
        /\ Returns(<<"useRateLimit", "$transaction", "group.updateMany", "emailConfig.delete">>,
                   NoError, None)
        /\ StoreRowsUnchanged
        /\ UNCHANGED <<smsConfigs, groupMeConfigs, profiles>>
  /\ UNCHANGED <<validationVars, projectionVars, sessionVars, pickerVars>>

SmsAlreadyConnected == TRPCError("BAD_REQUEST", ErrorText("SMS already connected", ""))

\* userRouter.connectSms: useRateLimit, user.findUnique, then
\* smsConfig.create with the input
connectSms(userId, accountSid) ==
  /\ userId \in users
  /\ \/ Unchanged(<<"useRateLimit">>, TooManyRequests)
     \/ /\ \E e \in smsConfigs : e.userId = userId
        /\ Unchanged(<<"useRateLimit", "user.findUnique">>, SmsAlreadyConnected)
     \/ /\ ~\E e \in smsConfigs : e.userId = userId
        /\ smsConfigs' = smsConfigs \cup {[id |-> cuid(smsConfigs), userId |-> userId,
                                            accountSid |-> accountSid, isDefault |-> FALSE]}
        /\ Returns(<<"useRateLimit", "user.findUnique", "smsConfig.create">>, NoError, None)
        /\ StoreRowsUnchanged
        /\ UNCHANGED <<emailConfigs, groupMeConfigs, groupChannels, profiles>>
  /\ UNCHANGED <<validationVars, projectionVars, sessionVars, pickerVars>>

\* variant: the existing SmsConfig is not looked for before the write
connectSmsDefault_NoCheck(userId) ==
  /\ userId \in users
  /\ \/ Unchanged(<<"useRateLimit">>, TooManyRequests)
     \/ /\ smsConfigs' = {e \in smsConfigs : e.userId # userId}
                            \cup {[id |-> cuid(smsConfigs), userId |-> userId,
                                   accountSid |-> "TWILIO_ACCOUNT_SID", isDefault |-> TRUE]}
        /\ Returns(<<"useRateLimit", "user.findUnique", "smsConfig.create">>, NoError, None)
        /\ StoreRowsUnchanged
        /\ UNCHANGED <<emailConfigs, groupMeConfigs, groupChannels, profiles>>
  /\ UNCHANGED <<validationVars, projectionVars, sessionVars, pickerVars>>

\* userRouter.connectSmsDefault: as connectSms, with the application's own
\* Twilio account and isDefault set
connectSmsDefault(userId) ==
  /\ userId \in users
  /\ \/ Unchanged(<<"useRateLimit">>, TooManyRequests)
     \/ /\ \E e \in smsConfigs : e.userId = userId
        /\ Unchanged(<<"useRateLimit", "user.findUnique">>, SmsAlreadyConnected)
     \/ /\ ~\E e \in smsConfigs : e.userId = userId
        /\ smsConfigs' = smsConfigs \cup {[id |-> cuid(smsConfigs), userId |-> userId,
                                            accountSid |-> "TWILIO_ACCOUNT_SID",
                                            isDefault |-> TRUE]}
        /\ Returns(<<"useRateLimit", "user.findUnique", "smsConfig.create">>, NoError, None)
        /\ StoreRowsUnchanged
        /\ UNCHANGED <<emailConfigs, groupMeConfigs, groupChannels, profiles>>
  /\ UNCHANGED <<validationVars, projectionVars, sessionVars, pickerVars>>

\* userRouter.disconnectSms: useRateLimit, then in one transaction
\* group.updateMany and smsConfig.delete
disconnectSms(userId) ==
  /\ userId \in users
  /\ \/ Unchanged(<<"useRateLimit">>, TooManyRequests)
     \/ /\ ~\E e \in smsConfigs : e.userId = userId
        /\ Unchanged(<<"useRateLimit", "$transaction", "group.updateMany", "smsConfig.delete">>,
                     PrismaClientKnownRequestError("P2025"))
     \/ /\ \E e \in smsConfigs : e.userId = userId
        /\ groupChannels' = ChannelOff(userId, "useSMS")
        /\ smsConfigs' = {e \in smsConfigs : e.userId # userId}
        /\ Returns(<<"useRateLimit", "$transaction", "group.updateMany", "smsConfig.delete">>,
                   NoError, None)
        /\ StoreRowsUnchanged
        /\ UNCHANGED <<emailConfigs, groupMeConfigs, profiles>>
  /\ UNCHANGED <<validationVars, projectionVars, sessionVars, pickerVars>>

\* groupMeConfig.upsert where { userId }: the row's accessToken is replaced,
\* or the row is created when the user has none
upsert(table, userId, accessToken) ==
  IF \E e \in table : e.userId = userId
    THEN {IF e.userId = userId THEN [e EXCEPT !.accessToken = accessToken] ELSE e :
            e \in table}
    ELSE table \cup {[id |-> cuid(table), userId |-> userId, accessToken |-> accessToken]}

\* .input(z.object({ accessToken: z.string().min(1) })): a failed input
\* parse is answered before the resolver runs
accessTokenInvalid ==
  TRPCError("BAD_REQUEST",
            ErrorText("String must contain at least 1 character(s)", "accessToken"))

\* variant: the upsert is awaited before useRateLimit
connectGroupMe_UpsertFirst(userId, accessToken) ==
  /\ userId \in users
  /\ \/ /\ accessToken = ""
        /\ Unchanged(<<>>, accessTokenInvalid)
     \/ /\ accessToken # ""
        /\ groupMeConfigs' = upsert(groupMeConfigs, userId, accessToken)
        /\ \/ Returns(<<"groupMeConfig.upsert", "useRateLimit">>, TooManyRequests, None)
           \/ Returns(<<"groupMeConfig.upsert", "useRateLimit">>, NoError, None)
        /\ StoreRowsUnchanged
        /\ UNCHANGED <<emailConfigs, smsConfigs, groupChannels, profiles>>
  /\ UNCHANGED <<validationVars, projectionVars, sessionVars, pickerVars>>

\* userRouter.connectGroupMe: useRateLimit, then groupMeConfig.upsert
\* where { userId }: the row is created, or its accessToken replaced
connectGroupMe(userId, accessToken) ==
  /\ userId \in users
  /\ \/ /\ accessToken = ""
        /\ Unchanged(<<>>, accessTokenInvalid)
     \/ /\ accessToken # ""
        /\ Unchanged(<<"useRateLimit">>, TooManyRequests)
     \/ /\ accessToken # ""
        /\ groupMeConfigs' = upsert(groupMeConfigs, userId, accessToken)
        /\ Returns(<<"useRateLimit", "groupMeConfig.upsert">>, NoError, None)
        /\ StoreRowsUnchanged
        /\ UNCHANGED <<emailConfigs, smsConfigs, groupChannels, profiles>>
  /\ UNCHANGED <<validationVars, projectionVars, sessionVars, pickerVars>>

\* userRouter.disconnectGroupMe: useRateLimit, then in one transaction
\* group.updateMany and groupMeConfig.delete
disconnectGroupMe(userId) ==
  /\ userId \in users
  /\ \/ Unchanged(<<"useRateLimit">>, TooManyRequests)
     \/ /\ ~\E e \in groupMeConfigs : e.userId = userId
        /\ Unchanged(<<"useRateLimit", "$transaction", "group.updateMany", "groupMeConfig.delete">>,
                     PrismaClientKnownRequestError("P2025"))
     \/ /\ \E e \in groupMeConfigs : e.userId = userId
        /\ groupChannels' = ChannelOff(userId, "useGroupMe")
        /\ groupMeConfigs' = {e \in groupMeConfigs : e.userId # userId}
        /\ Returns(<<"useRateLimit", "$transaction", "group.updateMany", "groupMeConfig.delete">>,
                   NoError, None)
        /\ StoreRowsUnchanged
        /\ UNCHANGED <<emailConfigs, smsConfigs, profiles>>
  /\ UNCHANGED <<validationVars, projectionVars, sessionVars, pickerVars>>

\* the profile forms submitted: a username, and an email or none
ProfileSamples ==
  {[username |-> "bob", email |-> None],
   [username |-> "alice", email |-> Some("bob@example.com")]}

AccountSidSamples == {"AC1"}

AccessTokenSamples == {"", "tokA", "tokB"}

\* the users who call the SMS procedures
SmsCallers == {"u1"}

\* the mutating procedures of the contact and user routers
AccountNext ==
  \/ \E u \in UserIds : update(u, "c1", None, None)
  \/ \E u \in UserIds, in \in ProfileSamples : updateProfile(u, in)
  \/ \E u \in UserIds : deleteAccount(u)
  \/ \E u \in UserIds : connectEmail(u)
  \/ \E u \in SmsCallers, sid \in AccountSidSamples : connectSms(u, sid)
  \/ \E u \in SmsCallers : connectSmsDefault(u)
  \/ \E u \in UserIds, tok \in AccessTokenSamples : connectGroupMe(u, tok)
  \/ \E u \in UserIds : disconnectEmail(u)
  \/ \E u \in SmsCallers : disconnectSms(u)
  \/ \E u \in UserIds : disconnectGroupMe(u)

AccountSpec == AccountInit /\ [][AccountNext]_vars

\* C13: in every mutating procedure of the contact and user routers the
\* rate-limit check is the first call awaited, before any database read or
\* write, and a call it rejects awaits nothing else and leaves every row
\* unchanged.
C13_RateLimitFirst ==
  [][/\ \A i \in 1..Len(lastOps') :
          lastOps'[i] # "useRateLimit" => (i > 1 /\ lastOps'[1] = "useRateLimit")
     /\ lastError' = TooManyRequests =>
          /\ lastOps' = <<"useRateLimit">>
          /\ UNCHANGED <<users, contacts, groups, members, messages, memberSnapshots>>
          /\ UNCHANGED accountVars]_vars

\* C13 witness: a call was rejected by the rate limit while u1 holds an
\* SmsConfig and a GroupMeConfig
C13_Witness ==
  /\ lastError = TooManyRequests
  /\ lastOps = <<"useRateLimit">>
  /\ \E e \in smsConfigs : e.userId = "u1"
  /\ \E e \in groupMeConfigs : e.userId = "u1"

\* the error tells that the connection exists already, and is not the
\* error of a failed input validation
IsConflict(error) ==
  /\ error.name = "TRPCError"
  /\ error.message.text \in {"Email is already connected", "SMS already connected"}
  /\ error # accessTokenInvalid

\* C16: connectEmail, connectSms and connectSmsDefault called by a user who
\* already has the EmailConfig or SmsConfig fail with an "already
\* connected" error that is not a validation error, and no config row is
\* created or modified.
C16_ConnectConflict ==
  [][\A u \in UserIds :
       /\ (connectEmail(u) /\ PastRateLimit /\ \E e \in emailConfigs : e.userId = u)
            => (IsConflict(lastError') /\ UNCHANGED accountVars)
       /\ \A sid \in AccountSidSamples :
            (connectSms(u, sid) /\ PastRateLimit /\ \E e \in smsConfigs : e.userId = u)
              => (IsConflict(lastError') /\ UNCHANGED accountVars)
       /\ (connectSmsDefault(u) /\ PastRateLimit /\ \E e \in smsConfigs : e.userId = u)
            => (IsConflict(lastError') /\ UNCHANGED accountVars)]_vars

\* C16 witness: u1, connected with an account of their own, asked to connect
\* SMS again
C16_Witness ==
  /\ lastError = SmsAlreadyConnected
  /\ lastOps = <<"useRateLimit", "user.findUnique">>
  /\ \E e \in smsConfigs : e.userId = "u1" /\ e.accountSid = "AC1" /\ ~e.isDefault

\* C17: connectGroupMe called by a user who already has a GroupMeConfig
\* fails with an error and leaves the stored GroupMeConfig unchanged.
C17_GroupMeConflict ==
  [][\A u \in UserIds : \A tok \in AccessTokenSamples \ {""} :
       (connectGroupMe(u, tok) /\ PastRateLimit /\ \E e \in groupMeConfigs : e.userId = u)
         => (lastError' # NoError /\ groupMeConfigs' = groupMeConfigs)]_vars

\* C28: updateProfile reports 'Username ... is already taken' only when the
\* submitted username collides with another user's username; a uniqueness
\* collision on email or phone is not reported as a username conflict, and
\* in every failing case the user row is unchanged.
C28_UsernameConflictOnly ==
  [][\A u \in UserIds : \A in \in ProfileSamples :
       (updateProfile(u, in) /\ PastRateLimit)
         => /\ lastError' = UsernameTaken(in) => usernameTaken(u, in)
            /\ lastError' # NoError => profiles' = profiles]_vars

----------------------------------------------------------------------------
(* The connection queries *)

\* variant: the whole row is selected
selectId_WholeRow(row) == row

\* select: { id: true }
selectId(row) == [id |-> row.id]

\* table.findUnique({ where: { userId }, select: { id: true } })
findUnique(table, userId) ==
  IF \E e \in table : e.userId = userId
    THEN Some(selectId(CHOOSE e \in table : e.userId = userId))
    ELSE None

\* what getIsUserConnections returns on the three tables
isUserConnections(userId, emails, smss, groupMes) ==
  [emailConfig   |-> findUnique(emails, userId),
   smsConfig     |-> findUnique(smss, userId),
   groupMeConfig |-> findUnique(groupMes, userId)]

\* userRouter.getIsUserConnections: useRateLimit, then the three findUnique
\* awaited together
getIsUserConnections(userId) ==
  /\ userId \in users
  /\ \/ Unchanged(<<"useRateLimit">>, TooManyRequests)
     \/ /\ Returns(<<"useRateLimit", "emailConfig.findUnique", "smsConfig.findUnique",
                     "groupMeConfig.findUnique">>,
                   NoError,
                   Some(isUserConnections(userId, emailConfigs, smsConfigs, groupMeConfigs)))
        /\ StoreRowsUnchanged
        /\ UNCHANGED accountVars
  /\ UNCHANGED <<validationVars, projectionVars, sessionVars, pickerVars>>

\* connections made and dropped by both users, and the query
ConnectionsNext ==
  \/ \E u \in UserIds, tok \in AccessTokenSamples : connectGroupMe(u, tok)
  \/ \E u \in UserIds, sid \in AccountSidSamples : connectSms(u, sid)
  \/ \E u \in UserIds : connectSmsDefault(u)
  \/ \E u \in UserIds : disconnectEmail(u)
  \/ \E u \in UserIds : disconnectGroupMe(u)
  \/ \E u \in UserIds : getIsUserConnections(u)

ConnectionsSpec == AccountInit /\ [][ConnectionsNext]_vars

SecretSamples == {"s1", "s2"}

\* the same tables with other secrets stored and without the rows of the
\* other users
emailsWith(userId, secret) ==
  {[e EXCEPT !.accessToken = secret] : e \in {x \in emailConfigs : x.userId = userId}}

smssWith(userId, secret) ==
  {[e EXCEPT !.accountSid = secret] : e \in {x \in smsConfigs : x.userId = userId}}

groupMesWith(userId, secret) ==
  {[e EXCEPT !.accessToken = secret] : e \in {x \in groupMeConfigs : x.userId = userId}}

\* C29: the result of getIsUserConnections depends only on which of the
\* caller's three configs exist and on their ids: two store states that
\* differ only in stored secrets give the same response to the same caller,
\* and no other user's config is ever included.
C29_ConnectionsHideSecrets ==
  [][\A u \in UserIds :
       (getIsUserConnections(u) /\ PastRateLimit)
         => \A secret \in SecretSamples :
              lastResult' = Some(isUserConnections(u, emailsWith(u, secret),
                                                   smssWith(u, secret),
                                                   groupMesWith(u, secret)))]_vars

\* C29 witness: u1 was told of their EmailConfig and GroupMeConfig while u2
\* holds a GroupMeConfig with its own token
C29_Witness ==
  /\ lastOps = <<"useRateLimit", "emailConfig.findUnique", "smsConfig.findUnique",
                 "groupMeConfig.findUnique">>
  /\ lastResult = Some(isUserConnections("u1", emailConfigs, smsConfigs, groupMeConfigs))
  /\ IsSome(Get(lastResult).emailConfig) /\ IsSome(Get(lastResult).groupMeConfig)
  /\ \E e \in groupMeConfigs : e.userId = "u2"
  /\ \E a, b \in groupMeConfigs : a.userId = "u1" /\ b.userId = "u2" /\ a.id # b.id

----------------------------------------------------------------------------
(* A stored value validated again: the refinements of messageInputSchema   *)
(* read the clock (new Date()) each time they run                          *)

\* the stored values validated twice: every combination of schedule and
\* recurrence fields, without reminders
StoredPayloads(n) ==
  [isScheduled     : YesNo,
   scheduledDate   : ScheduledDateSamples(n) \ {BadDateString},
   isRecurring     : YesNo,
   recurringNum    : RecurringNumSamples,
   recurringPeriod : RecurringPeriodSamples,
   isReminders     : YesNo,
   reminders       : {None, Some(<<>>)}]

\* the minutes that pass between the two validations
ClockSteps == {0, 2, MinutesPerDay, 367 * MinutesPerDay}

RevalidateInit ==
  /\ now \in NowSamples
  /\ form \in StoredPayloads(now)
  /\ input = Some(toInput(form))
  /\ formResult = NotRun
  /\ inputResult = NotRun
  /\ ProjectionIdle
  /\ StoreIdle
  /\ AccountIdle
  /\ CallIdle
  /\ SessionIdle
  /\ PickerIdle

\* messageInputSchema.safeParse(input) once more, dt minutes after the
\* first validation
Revalidate(dt) ==
  /\ InputRan
  /\ now \in NowSamples
  /\ now' = now + dt
  /\ inputResult' = messageInputSchema(Get(input), now')
  /\ UNCHANGED <<form, input, formResult, projectionVars, storeVars, accountVars, callVars,
               sessionVars, pickerVars>>

RevalidateNext ==
  \/ ValidateInput
  \/ \E dt \in ClockSteps : Revalidate(dt)

RevalidateSpec == RevalidateInit /\ [][RevalidateNext]_vars

\* C18 as stated: a storage-mode value validated twice is accepted both
\* times or rejected both times.
C18_Original ==
  [][(InputRan /\ InputRan') => (inputResult'.success <=> inputResult.success)]_vars

\* C18 amended: a storage-mode value validated twice is accepted both times
\* or rejected both times when the clock reads the same at both
\* validations or isScheduled is off.
C18_SameOutcomeTwice ==
  [][(InputRan /\ InputRan' /\ (now' = now \/ ~Get(input).isScheduled))
       => (inputResult'.success <=> inputResult.success)]_vars

\* C18 witness: an unscheduled value whose date has passed in between is
\* accepted again a day later
C18_Witness ==
  /\ InputRan
  /\ now = Instant(2024, 2, 29, 23, 58) + MinutesPerDay
  /\ ~Get(input).isScheduled
  /\ Get(input).scheduledDate = Some(DateOf(Instant(2024, 2, 29, 23, 59)))
  /\ inputResult.success

----------------------------------------------------------------------------
(* The four cross-field rules, each against the issues of a result *)

CrossFieldRules == {"recurrenceCap", "scheduleWindow", "reminderLeadTime", "requiredCompanion"}

\* a flag is on and its companion field is missing
MissingCompanion ==
  \/ form.isRecurring = "yes" /\ (~IsSome(form.recurringNum) \/ ~IsSome(form.recurringPeriod))
  \/ form.isScheduled = "yes" /\ ~StringTruthy(form.scheduledDate)
  \/ form.isReminders = "yes" /\ (~IsSome(form.reminders) \/ Get(form.reminders) = <<>>)

\* the payload breaks the rule
Violates(rule) ==
  CASE rule = "recurrenceCap"     -> ExceedsCap
    [] rule = "scheduleWindow"    -> form.isScheduled = "yes"
                                       /\ (DateAtOrBeforeNow \/ DateBeyondOneYear)
    [] rule = "reminderLeadTime"  -> LateReminder
    [] rule = "requiredCompanion" -> MissingCompanion

\* the issues a rule raises
IssuesOf(rule) ==
  IF rule = "requiredCompanion"
    THEN {"scheduledRequired", "recurringRequired", "remindersRequired"}
    ELSE {rule}

\* the result carries an issue raised by the rule
Reports(r, rule) == \E i \in r.issues : i.rule \in IssuesOf(rule)

\* C20: when a payload breaks several cross-field rules at once, the
\* result of either schema carries an issue for each rule broken; no
\* rule's failure hides another's.
C20_EachRuleReported ==
  \A a \in CrossFieldRules : \A b \in CrossFieldRules \ {a} :
    (Violates(a) /\ Violates(b))
      => /\ (FormRan => (Reports(formResult, a) /\ Reports(formResult, b)))
         /\ (InputRan => (Reports(inputResult, a) /\ Reports(inputResult, b)))

----------------------------------------------------------------------------
(* The schedule window at its two ends *)

\* the schedule-window refinement raised no issue
WindowPassed(r) == \A i \in r.issues : i.rule # "scheduleWindow"

\* now < d <= now + 1 year, the year added as setFullYear does
InWindow ==
  /\ form.scheduledDate.kind = "iso"
  /\ now < form.scheduledDate.t
  /\ form.scheduledDate.t <= setFullYear(now, 1)

\* C21: for a scheduled payload with date d the schedule-window rule passes
\* if and only if now < d <= now + 1 year, in both schemas: d = now is
\* rejected, d exactly one year ahead is accepted and no date strictly
\* inside the window is rejected by this rule.
C21_WindowExact ==
  (form.isScheduled = "yes" /\ form.scheduledDate.kind = "iso")
    => /\ (FormRan => (WindowPassed(formResult) <=> InWindow))
       /\ (InputRan => (WindowPassed(inputResult) <=> InWindow))

\* C21 witness: scheduled exactly one year ahead and let through by the rule
\* in both schemas
C21_Witness ==
  /\ BothRan /\ form.isScheduled = "yes"
  /\ form.scheduledDate.kind = "iso"
  /\ form.scheduledDate.t = setFullYear(now, 1)
  /\ WindowPassed(formResult) /\ WindowPassed(inputResult)

----------------------------------------------------------------------------
(* The field maximum of recurringNum *)

\* the result carries the too_big issue of the recurringNum field
FieldMaxReported(r) ==
  /\ ~r.success
  /\ \E i \in r.issues : i.rule = "too_big" /\ i.path = <<"recurringNum">>

\* C22: in both schemas a payload whose recurringNum is greater than 31 is
\* rejected whatever its recurringPeriod and even when isRecurring is off, so
\* for a period whose ceiling is above 31 the effective maximum is 31.
C22_FieldMaxAlways ==
  (IsSome(form.recurringNum) /\ Get(form.recurringNum) > RecurringNumMax)
    => /\ (FormRan => FieldMaxReported(formResult))
       /\ (InputRan => FieldMaxReported(inputResult))

\* C22 witness: 32 weeks (ceiling 52) with isRecurring off, rejected by both
\* schemas
C22_Witness ==
  /\ BothRan /\ form.isRecurring = "no"
  /\ form.recurringNum = Some(32) /\ form.recurringPeriod = Some("weeks")
  /\ recurMaxValues["weeks"] > RecurringNumMax
  /\ FieldMaxReported(formResult) /\ FieldMaxReported(inputResult)

----------------------------------------------------------------------------
(* Date strings that do not parse *)

\* C23: in edit-form mode a payload with isScheduled = yes whose
\* scheduledDate string does not parse to a valid date is rejected, whether
\* or not it carries reminders.
C23_UnparseableRejected ==
  (/\ FormRan
   /\ form.isScheduled = "yes"
   /\ StringTruthy(form.scheduledDate)
   /\ ~ParseDate(form.scheduledDate).valid)
    => ~formResult.success

----------------------------------------------------------------------------
(* The reminder rule and its flag *)

LeadTimeIssue(r) == \E i \in r.issues : i.rule = "reminderLeadTime"

\* C24: in edit-form mode the reminder lead-time rule fires only when
\* reminders are enabled: a payload with isReminders = no is never rejected
\* because of entries present in its reminders list, just as the recurrence
\* cap and the schedule window fire only when their flag is yes.
C24_LeadTimeOnlyWhenEnabled ==
  /\ (FormRan /\ form.isReminders = "no") => ~LeadTimeIssue(formResult)
  /\ (FormRan /\ form.isRecurring = "no") => ~CapIssue(formResult)
  /\ (FormRan /\ form.isScheduled = "no") => WindowPassed(formResult)

----------------------------------------------------------------------------
(* Concurrent calls of the connection procedures. Every await of a handler *)
(* that reads or writes the database is a step of its own; useRateLimit    *)
(* touches no row and is taken together with the statement after it.       *)

\* most calls in flight at once
MaxCalls == 2

CallIds == 1..MaxCalls

\* the user all the concurrent calls are made for
Caller == "u1"

\* a call not made yet
NoCall ==
  [proc |-> "", pc |-> "idle", seen |-> FALSE, accessToken |-> "",
   error |-> NoError, deleted |-> FALSE, switchedOff |-> FALSE]

ConcurrentInit ==
  /\ StoreRows
  /\ ConnectionRows
  /\ calls = [c \in CallIds |-> NoCall]
  /\ CallIdle
  /\ PickerIdle
  /\ ValidationIdle
  /\ ProjectionIdle

\* what a step of call c leaves alone besides the connection rows
CallStep(c, call) ==
  /\ calls' = [calls EXCEPT ![c] = call]
  /\ StoreRowsUnchanged
  /\ UNCHANGED <<lastError, profiles>>
  /\ UNCHANGED <<validationVars, projectionVars, callVars, pickerVars>>

\* the call has thrown: handleError(error) goes to the client
Thrown(call, error) == [call EXCEPT !.pc = "done", !.error = handleError(error)]

\* variant: no unique index on userId
userIdTaken_NoIndex(table, userId) == FALSE

\* @@unique([userId]): an insert of a second row of the user fails (P2002)
userIdTaken(table, userId) == \E e \in table : e.userId = userId

ConnectProcs == {"connectEmail", "connectSms", "connectSmsDefault"}

DisconnectProcs == {"disconnectEmail", "disconnectSms", "disconnectGroupMe"}

\* useRateLimit(userId) throws: the first await of every procedure
rateLimited(c, proc) ==
  /\ calls[c].pc = "idle"
  /\ CallStep(c, Thrown([calls[c] EXCEPT !.proc = proc], TooManyRequests))
  /\ UNCHANGED <<emailConfigs, smsConfigs, groupMeConfigs, groupChannels>>

\* user.findUnique({ select: { emailConfig / smsConfig } }): the call reads
\* whether the user has the config
userFindUnique(c, proc) ==
  /\ calls[c].pc = "idle"
  /\ LET table == IF proc = "connectEmail" THEN emailConfigs ELSE smsConfigs
     IN  CallStep(c, [calls[c] EXCEPT !.proc = proc, !.pc = "read",
                                      !.seen = \E e \in table : e.userId = Caller])
  /\ UNCHANGED <<emailConfigs, smsConfigs, groupMeConfigs, groupChannels>>

\* connectEmail after its read: "already connected", or the OAuth URL
connectEmailReturn(c) ==
  /\ calls[c].pc = "read" /\ calls[c].proc = "connectEmail"
  /\ IF calls[c].seen
       THEN CallStep(c, Thrown(calls[c], EmailAlreadyConnected))
       ELSE CallStep(c, [calls[c] EXCEPT !.pc = "done"])
  /\ UNCHANGED <<emailConfigs, smsConfigs, groupMeConfigs, groupChannels>>

\* connectSms / connectSmsDefault after their read: "already connected", or
\* smsConfig.create
smsConfigCreate(c) ==
  /\ calls[c].pc = "read" /\ calls[c].proc \in {"connectSms", "connectSmsDefault"}
  /\ IF calls[c].seen
       THEN /\ CallStep(c, Thrown(calls[c], SmsAlreadyConnected))
            /\ UNCHANGED smsConfigs
       ELSE IF userIdTaken(smsConfigs, Caller)
       THEN /\ CallStep(c, Thrown(calls[c], PrismaClientKnownRequestError("P2002")))
            /\ UNCHANGED smsConfigs
       ELSE /\ CallStep(c, [calls[c] EXCEPT !.pc = "done"])
            /\ smsConfigs' = smsConfigs \cup
                 {[id |-> cuid(smsConfigs), userId |-> Caller,
                   accountSid |-> IF calls[c].proc = "connectSms"
                                    THEN "AC1" ELSE "TWILIO_ACCOUNT_SID",
                   isDefault |-> calls[c].proc = "connectSmsDefault"]}
  /\ UNCHANGED <<emailConfigs, groupMeConfigs, groupChannels>>

\* groupMeConfig.upsert, first half: the client looks the row up (create
\* holds a nested connect, so the upsert is a read followed by a write)
groupMeConfigUpsertRead(c, accessToken) ==
  /\ calls[c].pc = "idle"
  /\ CallStep(c, [calls[c] EXCEPT !.proc = "connectGroupMe", !.pc = "read",
                                  !.accessToken = accessToken,
                                  !.seen = \E e \in groupMeConfigs : e.userId = Caller])
  /\ UNCHANGED <<emailConfigs, smsConfigs, groupMeConfigs, groupChannels>>

\* groupMeConfig.upsert, second half: update of the row found, or create
groupMeConfigUpsertWrite(c) ==
  /\ calls[c].pc = "read" /\ calls[c].proc = "connectGroupMe"
  /\ IF calls[c].seen /\ ~\E e \in groupMeConfigs : e.userId = Caller
       THEN /\ CallStep(c, Thrown(calls[c], PrismaClientKnownRequestError("P2025")))
            /\ UNCHANGED groupMeConfigs
       ELSE IF ~calls[c].seen /\ userIdTaken(groupMeConfigs, Caller)
       THEN /\ CallStep(c, Thrown(calls[c], PrismaClientKnownRequestError("P2002")))
            /\ UNCHANGED groupMeConfigs
       ELSE /\ CallStep(c, [calls[c] EXCEPT !.pc = "done"])
            /\ groupMeConfigs' =
                 IF calls[c].seen
                   THEN upsert(groupMeConfigs, Caller, calls[c].accessToken)
                   ELSE groupMeConfigs \cup
                          {[id |-> cuid(groupMeConfigs), userId |-> Caller,
                            accessToken |-> calls[c].accessToken]}
  /\ UNCHANGED <<emailConfigs, smsConfigs, groupChannels>>

\* $transaction(async (prisma) => { prisma.group.updateMany(...): the
\* transaction is open and its update is not visible outside it yet
groupUpdateMany(c, proc) ==
  /\ calls[c].pc = "idle"
  /\ CallStep(c, [calls[c] EXCEPT !.proc = proc, !.pc = "inTransaction"])
  /\ UNCHANGED <<emailConfigs, smsConfigs, groupMeConfigs, groupChannels>>

\* ctx.db.emailConfig.delete / ctx.db.smsConfig.delete inside the callback:
\* the statement goes through the outer client, so it is committed on its
\* own; P2025 when the row is missing, and the transaction is rolled back
configDelete(c) ==
  /\ calls[c].pc = "inTransaction"
  /\ calls[c].proc \in {"disconnectEmail", "disconnectSms"}
  /\ LET table == IF calls[c].proc = "disconnectEmail" THEN emailConfigs ELSE smsConfigs
         rest  == {e \in table : e.userId # Caller}
     IN  /\ IF rest = table
              THEN CallStep(c, Thrown(calls[c], PrismaClientKnownRequestError("P2025")))
              ELSE CallStep(c, [calls[c] EXCEPT !.pc = "commit", !.deleted = TRUE])
         /\ IF calls[c].proc = "disconnectEmail"
              THEN emailConfigs' = rest /\ UNCHANGED smsConfigs
              ELSE smsConfigs' = rest /\ UNCHANGED emailConfigs
  /\ UNCHANGED <<groupMeConfigs, groupChannels>>

\* the callback has returned: the transaction commits and its updateMany
\* becomes visible, or the commit fails (P2028: the transaction has expired
\* or was closed) and the updateMany is rolled back
transactionCommit(c) ==
  /\ calls[c].pc = "commit"
  /\ LET channel == IF calls[c].proc = "disconnectEmail" THEN "useEmail" ELSE "useSMS"
     IN  \/ /\ CallStep(c, [calls[c] EXCEPT !.pc = "done", !.switchedOff = TRUE])
            /\ groupChannels' = ChannelOff(Caller, channel)
         \/ /\ CallStep(c, Thrown(calls[c], PrismaClientKnownRequestError("P2028")))
            /\ UNCHANGED groupChannels
  /\ UNCHANGED <<emailConfigs, smsConfigs, groupMeConfigs>>

\* prisma.groupMeConfig.delete inside the callback and the commit: the
\* delete belongs to the transaction, which keeps the row locked until it
\* ends, so both writes become visible together or not at all
groupMeConfigDelete(c) ==
  /\ calls[c].pc = "inTransaction"
  /\ calls[c].proc = "disconnectGroupMe"
  /\ IF ~\E e \in groupMeConfigs : e.userId = Caller
       THEN /\ CallStep(c, Thrown(calls[c], PrismaClientKnownRequestError("P2025")))
            /\ UNCHANGED <<groupMeConfigs, groupChannels>>
       ELSE \/ /\ CallStep(c, [calls[c] EXCEPT !.pc = "done", !.deleted = TRUE,
                                               !.switchedOff = TRUE])
               /\ groupMeConfigs' = {e \in groupMeConfigs : e.userId # Caller}
               /\ groupChannels' = ChannelOff(Caller, "useGroupMe")
            \/ /\ CallStep(c, Thrown(calls[c], PrismaClientKnownRequestError("P2028")))
               /\ UNCHANGED <<groupMeConfigs, groupChannels>>
  /\ UNCHANGED <<emailConfigs, smsConfigs>>

ConcurrentNext ==
  \E c \in CallIds :
    \/ \E proc \in ConnectProcs \cup DisconnectProcs \cup {"connectGroupMe"} :
         rateLimited(c, proc)
    \/ \E proc \in ConnectProcs : userFindUnique(c, proc)
    \/ connectEmailReturn(c)
    \/ smsConfigCreate(c)
    \/ \E tok \in AccessTokenSamples \ {""} : groupMeConfigUpsertRead(c, tok)
    \/ groupMeConfigUpsertWrite(c)
    \/ \E proc \in DisconnectProcs : groupUpdateMany(c, proc)
    \/ configDelete(c)
    \/ transactionCommit(c)
    \/ groupMeConfigDelete(c)

ConcurrentSpec == ConcurrentInit /\ [][ConcurrentNext]_vars

\* the table holds at most one row of each user
AtMostOne(table) == \A a, b \in table : a.userId = b.userId => a = b

\* C25: under any interleaving of concurrent connectEmail, connectSms,
\* connectSmsDefault, connectGroupMe and disconnect calls made for one user,
\* that user never has more than one EmailConfig, more than one SmsConfig or
\* more than one GroupMeConfig row, although each connect procedure reads
\* the existing config and creates the new one in two separate steps.
C25_OneConfigPerUser ==
  /\ AtMostOne(emailConfigs)
  /\ AtMostOne(smsConfigs)
  /\ AtMostOne(groupMeConfigs)

\* C25 witness: two connect calls both read that the user has no SmsConfig;
\* one created the row, the other's create failed on the unique index
C25_Witness ==
  \E c, d \in CallIds :
    /\ c # d
    /\ calls[c].proc \in {"connectSms", "connectSmsDefault"}
    /\ calls[d].proc \in {"connectSms", "connectSmsDefault"}
    /\ calls[c].pc = "done" /\ calls[d].pc = "done"
    /\ ~calls[c].seen /\ ~calls[d].seen
    /\ calls[c].error = NoError
    /\ calls[d].error = handleError(PrismaClientKnownRequestError("P2002"))
    /\ Cardinality({e \in smsConfigs : e.userId = Caller}) = 1

\* C26: disconnectEmail, disconnectSms and disconnectGroupMe are
\* all-or-nothing: after the call either the user's config row is deleted
\* and every group created by the user has the channel switched off, or
\* neither change is visible; a call by a user who has no such config
\* fails and leaves every group's flags unchanged.
C26_DisconnectAllOrNothing ==
  \A c \in CallIds :
    (calls[c].proc \in DisconnectProcs /\ calls[c].pc = "done")
      => /\ calls[c].deleted <=> calls[c].switchedOff
         /\ calls[c].error # NoError => ~calls[c].switchedOff

----------------------------------------------------------------------------
(* GroupMembersRecents: the recents picker of the create-group form. An    *)
(* action is an event handler or a query transition together with the      *)
(* render and the effects that follow it.                                   *)

\* most users and most groups added through the picker
MaxAdded == 2

PickerUsers == {"p1", "p2"}

\* an IGroupPreview with its members
GroupPreview(id, groupMembersOf) == [id |-> id, members |-> groupMembersOf]

\* what user.getLatest and group.getLatest answer: the server is not told
\* who has been added
UsersDataSamples == {<<>>, <<"p1">>, <<"p1", "p2">>}

GroupsDataSamples ==
  {<<>>, <<GroupPreview("r1", <<"p1", "p2">>)>>,
   <<GroupPreview("r1", <<"p1", "p2">>), GroupPreview("r2", <<"p2">>)>>}

\* useQuery on a key with no cached answer: status loading, data undefined
Loading == [isLoading |-> TRUE, isSuccess |-> FALSE, data |-> <<>>]

Success(data) == [isLoading |-> FALSE, isSuccess |-> TRUE, data |-> data]

InSeq(x, seq) == \E i \in 1..Len(seq) : seq[i] = x

\* data?.filter((user) => !usersAdded.some((u) => u.id === user.id)) ?? []
NotAdded(data, added) == SelectSeq(data, LAMBDA u : ~InSeq(u, added))

\* the same filter on groups, by group id
GroupsNotAdded(data, added) ==
  SelectSeq(data, LAMBDA g : ~\E i \in 1..Len(added) : added[i].id = g.id)

\* the contacts displayed
usersResults ==
  IF recentUsers.isLoading THEN previousUsersResults
  ELSE NotAdded(recentUsers.data, usersAdded)

\* the groups displayed
groupsResults ==
  IF recentGroups.isLoading THEN previousGroupsResults
  ELSE GroupsNotAdded(recentGroups.data, groupsAdded)

\* createUser(user): the member row made from a recent user
createUser(user) == [id |-> user, isRecipient |-> TRUE]

\* the two effects, run after the render that follows a state change: the
\* results are remembered only while the query is in its success state
Effects ==
  /\ previousUsersResults' =
       IF recentUsers'.isSuccess
         THEN NotAdded(recentUsers'.data, usersAdded')
         ELSE previousUsersResults
  /\ previousGroupsResults' =
       IF recentGroups'.isSuccess
         THEN GroupsNotAdded(recentGroups'.data, groupsAdded')
         ELSE previousGroupsResults

PickerUnchanged ==
  UNCHANGED <<validationVars, projectionVars, storeVars, accountVars, callVars,
              sessionVars>>

\* the component mounts: both queries start, nothing is added yet
PickerInit ==
  /\ usersAdded = <<>>
  /\ previousUsersResults = <<>>
  /\ groupsAdded = <<>>
  /\ previousGroupsResults = <<>>
  /\ recentUsers = Loading
  /\ recentGroups = Loading
  /\ formMembers = <<>>
  /\ ValidationIdle
  /\ ProjectionIdle
  /\ StoreIdle
  /\ AccountIdle
  /\ CallIdle
  /\ SessionIdle

\* the debounced recentsSearch changes: both queries get a new key
SearchChanges ==
  /\ recentUsers' = Loading
  /\ recentGroups' = Loading
  /\ UNCHANGED <<usersAdded, groupsAdded, formMembers>>
  /\ Effects
  /\ PickerUnchanged

\* user.getLatest answers
UsersQuerySucceeds(data) ==
  /\ recentUsers.isLoading
  /\ recentUsers' = Success(data)
  /\ UNCHANGED <<recentGroups, usersAdded, groupsAdded, formMembers>>
  /\ Effects
  /\ PickerUnchanged

\* group.getLatest answers
GroupsQuerySucceeds(data) ==
  /\ recentGroups.isLoading
  /\ recentGroups' = Success(data)
  /\ UNCHANGED <<recentUsers, usersAdded, groupsAdded, formMembers>>
  /\ Effects
  /\ PickerUnchanged

\* a click on a displayed contact
handleClickContact(user) ==
  /\ InSeq(user, usersResults)
  /\ Len(usersAdded) < MaxAdded
  /\ usersAdded' = Append(usersAdded, user)
  /\ formMembers' = Append(formMembers, createUser(user))
  /\ UNCHANGED <<recentUsers, recentGroups, groupsAdded>>
  /\ Effects
  /\ PickerUnchanged

\* a click on a displayed group
handleClickGroup(group) ==
  /\ InSeq(group, groupsResults)
  /\ Len(groupsAdded) < MaxAdded
  /\ LET filteredMembers == NotAdded(group.members, usersAdded)
     IN  /\ Len(usersAdded) + Len(filteredMembers) <= MaxAdded
         /\ groupsAdded' = Append(groupsAdded, group)
         /\ usersAdded' = usersAdded \o filteredMembers
         /\ formMembers' =
              formMembers \o [i \in 1..Len(filteredMembers) |-> createUser(filteredMembers[i])]
  /\ UNCHANGED <<recentUsers, recentGroups>>
  /\ Effects
  /\ PickerUnchanged

PickerNext ==
  \/ SearchChanges
  \/ \E data \in UsersDataSamples : UsersQuerySucceeds(data)
  \/ \E data \in GroupsDataSamples : GroupsQuerySucceeds(data)
  \/ \E user \in PickerUsers : handleClickContact(user)
  \/ \E data \in GroupsDataSamples : \E i \in 1..Len(data) : handleClickGroup(data[i])

PickerSpec == PickerInit /\ [][PickerNext]_vars

NoRepeat(seq) == \A i, j \in 1..Len(seq) : seq[i] = seq[j] => i = j

\* C27: in the recents picker, after any sequence of contact clicks, group
\* clicks and search queries starting and completing, no user id appears
\* more than once in the added list (usersAdded and the form's members),
\* and a user already added is never offered again in the displayed
\* results, including while a new search is loading and the previous
\* results are shown.
C27_NoUserAddedTwice ==
  /\ NoRepeat(usersAdded)
  /\ NoRepeat([i \in 1..Len(formMembers) |-> formMembers[i].id])
  /\ \A i \in 1..Len(usersResults) : ~InSeq(usersResults[i], usersAdded)

----------------------------------------------------------------------------
(* contactRouter.getRecentContacts. A name is the sequence of its          *)
(* characters; updatedAt is a count of writes.                             *)

\* most writes to contact rows after the initial ones
MaxTouches == 1

\* take: 10
Take == 10

RecentIds == <<"c1", "c2", "c3", "c4", "c5", "c6", "c7", "c8", "c9", "c10", "c11",
               "c12", "c13">>

IndexOf(id) == CHOOSE i \in 1..Len(RecentIds) : RecentIds[i] = id

Ann == <<"A", "n", "n">>

ANNA == <<"A", "N", "N", "A">>

Bob == <<"b", "o", "b">>

\* eleven contacts of u1 called Ann or ANNA, one called bob, and one Ann of
\* u2; the rows were written in pairs, so updatedAt has ties
RecentRows ==
  {[id |-> RecentIds[i],
    createdById |-> IF i = 13 THEN "u2" ELSE "u1",
    name |-> IF i = 12 THEN Bob ELSE IF i % 2 = 0 THEN ANNA ELSE Ann,
    phone |-> None, email |-> None, notes |-> None,
    updatedAt |-> (i + 1) \div 2] : i \in 1..Len(RecentIds)}

RecentsInit ==
  /\ users = UserIds
  /\ contacts = RecentRows
  /\ groups = {}
  /\ members = {}
  /\ messages = {}
  /\ memberSnapshots = {}
  /\ lastError = NoError
  /\ AccountIdle
  /\ CallIdle
  /\ SessionIdle
  /\ PickerIdle
  /\ ValidationIdle
  /\ ProjectionIdle

\* String.prototype.toLowerCase on the characters in use
toLowerCase(ch) ==
  CASE ch = "A" -> "a"
    [] ch = "B" -> "b"
    [] ch = "N" -> "n"
    [] ch = "O" -> "o"
    [] OTHER -> ch

\* name: { contains: search, mode: "insensitive" }
contains(name, search) ==
  \E k \in 0..(Len(name) - Len(search)) :
    \A i \in 1..Len(search) : toLowerCase(name[k + i]) = toLowerCase(search[i])

\* !input.search: undefined or the empty string
searchAbsent(search) == ~IsSome(search) \/ Get(search) = <<>>

\* the where clause of findMany
where(userId, in) ==
  {c \in contacts :
     /\ c.createdById = userId
     /\ ~InSeq(c.id, in.addedContactIds)
     /\ searchAbsent(in.search) \/ contains(c.name, Get(in.search))}

\* a comes before b under orderBy: { updatedAt: "desc" }; rows written at
\* the same time come in either order of their ids
Before(a, b, tie) ==
  \/ a.updatedAt > b.updatedAt
  \/ /\ a.updatedAt = b.updatedAt
     /\ IF tie THEN IndexOf(a.id) <= IndexOf(b.id) ELSE IndexOf(a.id) >= IndexOf(b.id)

RECURSIVE orderBy(_, _)
orderBy(rows, tie) ==
  IF rows = {} THEN <<>>
  ELSE LET first == CHOOSE a \in rows : \A b \in rows : Before(a, b, tie)
       IN  <<first>> \o orderBy(rows \ {first}, tie)

\* variant: no limit on the number of rows
take_All(seq, n) == seq

\* take: n
take(seq, n) == SubSeq(seq, 1, IF Len(seq) < n THEN Len(seq) ELSE n)

\* select: { id, name, phone, email, notes }
selectContact(c) ==
  [id |-> c.id, name |-> c.name, phone |-> c.phone, email |-> c.email, notes |-> c.notes]

findMany(userId, in, tie) ==
  LET rows == take(orderBy(where(userId, in), tie), Take)
  IN  [i \in 1..Len(rows) |-> selectContact(rows[i])]

\* contactRouter.getRecentContacts: useRateLimit, then contact.findMany
getRecentContacts(userId, in, tie) ==
  /\ userId \in users
  /\ \/ Unchanged(<<"useRateLimit">>, TooManyRequests)
     \/ /\ Returns(<<"useRateLimit", "contact.findMany">>, NoError,
                   Some(findMany(userId, in, tie)))
        /\ StoreRowsUnchanged
        /\ UNCHANGED accountVars
  /\ UNCHANGED <<validationVars, projectionVars, sessionVars, pickerVars>>

LastWrite == CHOOSE t \in {c.updatedAt : c \in contacts} : \A c \in contacts : c.updatedAt <= t

\* a contact row is written: @updatedAt sets updatedAt to the time of the
\* write
contactTouched(id) ==
  /\ LastWrite < (Len(RecentIds) + 1) \div 2 + MaxTouches
  /\ contacts' = {IF c.id = id THEN [c EXCEPT !.updatedAt = LastWrite + 1] ELSE c :
                    c \in contacts}
  /\ Returns(<<>>, NoError, None)
  /\ UNCHANGED <<users, groups, members, messages, memberSnapshots>>
  /\ UNCHANGED accountVars
  /\ UNCHANGED <<validationVars, projectionVars, sessionVars, pickerVars>>

SearchSamples ==
  {None, Some(<<>>), Some(<<"a", "n">>), Some(<<"N", "A">>), Some(<<"o", "b">>),
   Some(<<"z">>)}

AddedContactIdsSamples == {<<>>, <<"c1">>, <<"c11", "c12", "c13">>}

RecentsInputs == [search : SearchSamples, addedContactIds : AddedContactIdsSamples]

RecentsNext ==
  \/ \E u \in UserIds, in \in RecentsInputs, tie \in BOOLEAN : getRecentContacts(u, in, tie)
  \/ \E i \in 1..Len(RecentIds) : contactTouched(RecentIds[i])

RecentsSpec == RecentsInit /\ [][RecentsNext]_vars

\* the stored row of a returned contact
Stored(r) == CHOOSE c \in contacts : c.id = r.id

\* what findMany may answer to the caller u with the input in
RecentAnswer(r, u, in) ==
  LET own == {c \in contacts : c.createdById = u /\ ~InSeq(c.id, in.addedContactIds)}
  IN  /\ Len(r) <= 10
      /\ \A i \in 1..Len(r) :
           /\ Stored(r[i]).createdById = u
           /\ ~InSeq(r[i].id, in.addedContactIds)
      /\ \A i, j \in 1..Len(r) :
           i < j => Stored(r[i]).updatedAt >= Stored(r[j]).updatedAt
      /\ (IsSome(in.search) /\ Get(in.search) # <<>>)
           => \A i \in 1..Len(r) : contains(r[i].name, Get(in.search))
      /\ (~IsSome(in.search) \/ Get(in.search) = <<>>)
           => Len(r) = IF Cardinality(own) < 10 THEN Cardinality(own) ELSE 10

\* C30: getRecentContacts returns at most 10 contacts, every one created by
\* the caller and none whose id is in addedContactIds, ordered by updatedAt
\* descending; with a non-empty search every returned contact's name
\* contains the search text case-insensitively, and with an empty or absent
\* search no name filter is applied.
C30_RecentContacts ==
  \A u \in UserIds, in \in RecentsInputs, tie \in BOOLEAN :
    RecentAnswer(findMany(u, in, tie), u, in)

\* C30 witness: u1 searched "NA" with c1 added already and got ten of their
\* eleven Ann and ANNA contacts, c1 not among them
C30_Witness ==
  /\ lastOps = <<"useRateLimit", "contact.findMany">>
  /\ IsSome(lastResult)
  /\ Len(Get(lastResult)) = 10
  /\ \A i \in 1..10 :
       /\ Get(lastResult)[i].id # "c1"
       /\ Get(lastResult)[i].name \in {Ann, ANNA}
       /\ Stored(Get(lastResult)[i]).createdById = "u1"

============================================================================
